---------------------------- MODULE Spec2Model ----------------------------
(***************************************************************************)
(* Landing resolution and curvature correction of the golf ball flight     *)
(* model: golf_ballstics.get_landingpos with initiate_hit and simulate     *)
(* (src/Physics_Model/Physics_Model_v6.py).                                *)
(*                                                                         *)
(* Numbers are exact rationals [n |-> numerator, d |-> denominator], kept  *)
(* in lowest terms with d > 0.  The three non-finite floating point values *)
(* the scale computation can produce are the records with d = 0.           *)
(* The output of scipy's odeint is not computed here: every integration    *)
(* attempt draws its sample sequence from a bounded set of trajectories    *)
(* that start at the origin, as odeint's first row is the initial state.   *)
(***************************************************************************)
EXTENDS Integers, Sequences, FiniteSets, TLC

VARIABLES
    endtime,                      \* self.endtime
    df_simres,                    \* self.df_simres: the samples of the last simulate()
    horizontal_launch_angle_deg,  \* self.horizontal_launch_angle_deg
    spin_angle,                   \* self.spin_angle (radians)
    windspeed,                    \* self.windspeed
    pc,                           \* position of the get_landingpos call
    check,                        \* argument check
    curvature_scale_params,       \* argument curvature_scale_params = (a, b, p)
    kwargs,                       \* the shot passed on to initiate_hit
    i,                            \* local i: integration attempts made
    err,                          \* local err
    cont,                         \* local cont
    default_endtime,              \* local default_endtime
    landing,                      \* locals index, t, x, y of the interpolation
    ret,                          \* what the call returned or raised
    ncalls,                       \* get_landingpos calls made on the object so far
    attrs,                        \* the object's coefficient set and calibrated attributes
    objects,                      \* the objects of concurrent callers
    threads,                      \* the concurrent callers: the locals of their calls
    df_plot,                      \* the 3D viewer's plotted samples
    vshot,                        \* the 3D viewer's inputs of the current callback
    lookup,                       \* an evaluation of Cl's table lookup: sn and the looked-up cl
    hit,                          \* the fields initiate_hit stores for model(), with its arguments
    model,                        \* an evaluation of model(state, t): state, v_rel, u and the result
    classified,                   \* an evaluation of classify_shot: the arguments and both versions' labels
    flight                        \* a run of adjust_trajectory: its arguments, locals and result

\* one object and the locals of the call on it
callvars == <<pc, i, endtime, df_simres, horizontal_launch_angle_deg, spin_angle,
              windspeed, check, curvature_scale_params, kwargs, err, cont,
              default_endtime, landing, ret, ncalls>>

\* the objects and calls of concurrent callers
concvars == <<objects, threads>>

\* the 3D viewer's callback
viewvars == <<df_plot, vshot>>

\* evaluations of the program's functions
fnvars == <<lookup, hit, model, classified, flight>>

vars == <<callvars, attrs, concvars, viewvars, fnvars>>

---------------------------------------------------------------------------
(* Bounds of the model. *)

\* samples per integration attempt (the program's timesteps is 100)
NumSamples == 5

\* get_landingpos calls made one after another on one object
MaxCalls == 2

---------------------------------------------------------------------------
(* Exact arithmetic.  A number is [n, d, e], the rational (n/d) * Y^e with  *)
(* n/d in lowest terms, d > 0, and Y the yards-per-meter factor             *)
(* YardsNum/YardsDen: keeping the power of Y apart keeps the products of    *)
(* yard quantities within TLC's 32-bit integers.  Zero is [0, 1, 0].        *)

\* 1.09361 = YardsNum / YardsDen
YardsNum == 109361

YardsDen == 100000

RECURSIVE Gcd(_, _)
Gcd(a, b) == IF b = 0 THEN a ELSE Gcd(b, a % b)

Abs(k) == IF k < 0 THEN -k ELSE k

\* (n/d) * Y^e in normal form, for d > 0
Num(n, d, e) ==
    LET g == Gcd(Abs(n), d)
    IN  IF n = 0 THEN [n |-> 0, d |-> 1, e |-> 0]
        ELSE [n |-> n \div g, d |-> d \div g, e |-> e]

Rat(n, d) == Num(n, d, 0)

FromInt(k) == Num(k, 1, 0)

IsFinite(v) == v.d # 0

\* (an/ad) * (bn/bd) * Y^e, cancelling before multiplying
MulParts(an, ad, bn, bd, e) ==
    LET g1 == Gcd(Abs(an), bd)
        g2 == Gcd(Abs(bn), ad)
    IN  Num((an \div g1) * (bn \div g2), (ad \div g2) * (bd \div g1), e)

\* the same number with the power of Y lowered to m <= v.e
RECURSIVE ExpandTo(_, _)
ExpandTo(v, m) ==
    IF v.e <= m \/ v.n = 0 THEN v
    ELSE ExpandTo(MulParts(v.n, v.d, YardsNum, YardsDen, v.e - 1), m)

Min(j, k) == IF j < k THEN j ELSE k

\* a and b are the same number
REq(a, b) == ExpandTo(a, Min(a.e, b.e)) = ExpandTo(b, Min(a.e, b.e))

RNeg(a) == [n |-> -a.n, d |-> a.d, e |-> a.e]

RAbs(a) == [n |-> Abs(a.n), d |-> a.d, e |-> a.e]

\* (an/ad + bn/bd) * Y^e
AddParts(an, ad, bn, bd, e) ==
    LET g == Gcd(ad, bd)
    IN  Num(an * (bd \div g) + bn * (ad \div g), (ad \div g) * bd, e)

RAdd(a, b) ==
    IF a.n = 0 THEN b
    ELSE IF b.n = 0 THEN a
    ELSE LET m == Min(a.e, b.e)
             x == ExpandTo(a, m)
             y == ExpandTo(b, m)
         IN  AddParts(x.n, x.d, y.n, y.d, m)

RSub(a, b) == RAdd(a, RNeg(b))

RMul(a, b) == MulParts(a.n, a.d, b.n, b.d, a.e + b.e)

\* 1/b, for b # 0
RInv(b) ==
    IF b.n > 0 THEN [n |-> b.d, d |-> b.n, e |-> -b.e]
    ELSE [n |-> -b.d, d |-> -b.n, e |-> -b.e]

RDiv(a, b) == RMul(a, RInv(b))

\* a < b
RLt(a, b) ==
    LET m == IF a.n = 0 THEN b.e ELSE IF b.n = 0 THEN a.e ELSE Min(a.e, b.e)
        x == ExpandTo(a, m)
        y == ExpandTo(b, m)
        g == Gcd(x.d, y.d)
    IN  x.n * (y.d \div g) < y.n * (x.d \div g)

RLe(a, b) == ~RLt(b, a)

---------------------------------------------------------------------------
(* Floating point values that are not finite, and Python's min and max. *)

NaN == [n |-> 0, d |-> 0, e |-> 0]

PInf == [n |-> 1, d |-> 0, e |-> 0]

NInf == [n |-> -1, d |-> 0, e |-> 0]

\* x < y on floats: false when either is NaN
FLt(x, y) ==
    IF x = NaN \/ y = NaN THEN FALSE
    ELSE IF x = PInf \/ y = NInf THEN FALSE
    ELSE IF x = NInf \/ y = PInf THEN TRUE
    ELSE RLt(x, y)

\* min(x, y): y when y < x, else x
PyMin(x, y) == IF FLt(y, x) THEN y ELSE x

\* max(x, y): y when y > x, else x
PyMax(x, y) == IF FLt(x, y) THEN y ELSE x

\* base ** p for a finite base >= 0 and an integer p (0 ** negative is inf in numpy)
RECURSIVE FPow(_, _)
FPow(base, p) ==
    IF p = 0 THEN FromInt(1)
    ELSE IF p > 0 THEN RMul(base, FPow(base, p - 1))
    ELSE IF base.n = 0 THEN PInf
    ELSE RInv(FPow(base, -p))

\* a * v for a finite a
FMul(a, v) ==
    IF IsFinite(v) THEN RMul(a, v)
    ELSE IF v = NaN \/ a.n = 0 THEN NaN
    ELSE IF (a.n > 0) = (v = PInf) THEN PInf ELSE NInf

\* v + b for a finite b
FAdd(v, b) == IF IsFinite(v) THEN RAdd(v, b) ELSE v

---------------------------------------------------------------------------
(* Arithmetic on floats either of which may be non-finite. *)

FIsInf(x) == x = PInf \/ x = NInf

\* the sign of x: -1, 0 or 1 (x not NaN)
FSign(x) == IF x.n > 0 THEN 1 ELSE IF x.n < 0 THEN -1 ELSE 0

\* x * y: inf * 0 is nan
FTimes(x, y) ==
    IF x = NaN \/ y = NaN THEN NaN
    ELSE IF FIsInf(x) \/ FIsInf(y)
         THEN (IF FSign(x) * FSign(y) = 0 THEN NaN
               ELSE IF FSign(x) * FSign(y) > 0 THEN PInf ELSE NInf)
    ELSE RMul(x, y)

\* x + y: inf + -inf is nan
FPlus(x, y) ==
    IF x = NaN \/ y = NaN THEN NaN
    ELSE IF FIsInf(x) /\ FIsInf(y) THEN (IF x = y THEN x ELSE NaN)
    ELSE IF FIsInf(x) THEN x
    ELSE IF FIsInf(y) THEN y
    ELSE RAdd(x, y)

FMinus(x) == IF IsFinite(x) THEN RNeg(x) ELSE IF x = PInf THEN NInf ELSE IF x = NInf THEN PInf ELSE NaN

\* x / y for finite numpy floats: x / 0 is inf with the sign of x, 0 / 0 is nan
FOver(x, y) ==
    IF y.n = 0 THEN (IF x.n = 0 THEN NaN ELSE IF x.n > 0 THEN PInf ELSE NInf)
    ELSE RDiv(x, y)

\* x <= y on floats: false when either is nan
FLe(x, y) == x # NaN /\ y # NaN /\ ~FLt(y, x)

---------------------------------------------------------------------------
(* Constants of the program. *)

\* imax = 3: integration attempts per call
imax == 3

\* self.endtime = 10 after construction
InitialEndtime == 10

\* 1.09361 yards per meter
YardsPerMeter == Num(1, 1, 1)

\* the bounds of the scale factor, 0.1 and 2.0
ScaleMin == Rat(1, 10)

ScaleMax == FromInt(2)

\* 1e-6, below which spin axis and wind count as zero
StraightEps == Rat(1, 1000000)

\* np.pi, to the accuracy of 355/113
Pi == Rat(355, 113)

\* the status strings
NoError == ""

NeverLands == "error: ball never lands"

MultipleCrossings == "error: ball passes through the ground multiple times"

---------------------------------------------------------------------------
(* Inputs of a call. *)

\* np.tan(deg * np.pi / 180) for the horizontal launch angles of Shots
TanDeg(deg) ==
    CASE deg = FromInt(0) -> FromInt(0)
      [] deg = FromInt(45) -> FromInt(1)
      [] deg = FromInt(-45) -> FromInt(-1)

\* the keyword arguments of initiate_hit that get_landingpos reads back; the
\* others (velocity, launch_angle_deg, spin_rpm, windheading_deg, mass, radius,
\* rho, g) only shape the integrator's output
Shot(h, sa, ws) == [horizontal_launch_angle_deg |-> h, spin_angle_deg |-> sa, windspeed |-> ws]

\* spin axis and wind both zero; both non-zero but below the straight-shot
\* epsilon; spin axis just above the epsilon; spin only; wind only
Shots ==
    { Shot(FromInt(0), FromInt(0), FromInt(0)),
      Shot(FromInt(45), Rat(1, 100000), Rat(-1, 2000000)),
      Shot(FromInt(0), Rat(1, 10000), FromInt(0)),
      Shot(FromInt(45), FromInt(-10), FromInt(0)),
      Shot(FromInt(0), FromInt(0), FromInt(5)),
      Shot(FromInt(-45), FromInt(0), Rat(1, 500000)) }

\* the shots of a sequence of calls: a straight one and a curving one
SeqShots ==
    { Shot(FromInt(0), FromInt(0), FromInt(0)),
      Shot(FromInt(45), FromInt(-10), FromInt(0)) }

\* (a, b, p) triples, p an integer
ScaleParams ==
    { <<FromInt(0), Rat(1, 2), 0>>,
      <<FromInt(1), FromInt(0), 1>>,
      <<FromInt(-1), FromInt(1), 1>>,
      <<FromInt(1), FromInt(1), -1>>,
      <<FromInt(0), FromInt(1), -1>> }

---------------------------------------------------------------------------
(* simulate: the sample sequences an integration attempt can produce. *)

\* the heights a sample can have
Heights == {-1, 0, 2}

\* Linspace with the spacing of the first attempt kept on every retry
Linspace_FixedSpacing(horizon, k) == Rat(InitialEndtime * k, NumSamples - 1)

\* np.linspace(0, horizon, NumSamples)[k]
Linspace(horizon, k) == Rat(horizon * k, NumSamples - 1)

\* the side the shot curves to: that of the spin axis, else that of the wind
Bend(shot) ==
    IF shot.spin_angle_deg.n # 0 THEN (IF shot.spin_angle_deg.n > 0 THEN 1 ELSE -1)
    ELSE IF shot.windspeed.n # 0 THEN (IF shot.windspeed.n > 0 THEN 1 ELSE -1)
    ELSE 0

\* Sample with a launch from below the ground: the first sample is not the
\* initial state (0, 0, 0)
Sample_StartsBelowGround(horizon, shot, zs, k) ==
    [t |-> Linspace(horizon, k),
     x |-> TanDeg(shot.horizontal_launch_angle_deg).n * 2 * k + Bend(shot) * k * (k - 1),
     y |-> 2 * k,
     z |-> IF k = 0 THEN -1 ELSE zs[k]]

\* sample k (from 0) of the shot with heights zs: 2 downrange per sample, the
\* lateral position on the launch line plus a bend growing with k
Sample(horizon, shot, zs, k) ==
    [t |-> Linspace(horizon, k),
     x |-> TanDeg(shot.horizontal_launch_angle_deg).n * 2 * k + Bend(shot) * k * (k - 1),
     y |-> 2 * k,
     z |-> IF k = 0 THEN 0 ELSE zs[k]]

\* the results of simulate() with self.endtime = horizon: NumSamples samples,
\* the first one the initial state (t = 0 at the origin)
Simulate(horizon, shot) ==
    { [k \in 1..NumSamples |-> Sample(horizon, shot, zs, k - 1)] :
        zs \in [1..(NumSamples - 1) -> Heights] }

\* the results of simulate() that stay at height 2 up to the last two samples:
\* flights that land, end above ground, end at height 0, or come up again
Flights(horizon, shot) ==
    { df \in Simulate(horizon, shot) : \A k \in 2..(NumSamples - 2) : df[k].z = 2 }

\* the flights that stay at height 2 up to the last sample: one that lands,
\* one that ends at height 0 and one that ends above ground
Descents(horizon, shot) ==
    { df \in Flights(horizon, shot) : df[NumSamples - 1].z = 2 }

---------------------------------------------------------------------------
(* Helpers of get_landingpos. *)

\* self.df_simres[col][k], rows numbered from 0
Row(df, k) == df[k + 1]

\* self.df_simres['z'].iloc[-1]
FinalHeight(df) == df[Len(df)].z

\* len(list(groupby(z, lambda x: x >= 0))): runs of equal sign test
RECURSIVE Groups(_, _)
Groups(df, k) ==
    IF k = 1 THEN 1
    ELSE Groups(df, k - 1) + (IF (df[k].z >= 0) = (df[k - 1].z >= 0) THEN 0 ELSE 1)

\* ArgmaxNegative taking the row where the samples go below ground for the
\* last time instead of the first
ArgmaxNegative_LastCrossing(df) ==
    IF \E k \in 0..(Len(df) - 1) : Row(df, k).z < 0
    THEN CHOOSE k \in 1..(Len(df) - 1) :
            /\ Row(df, k).z < 0
            /\ Row(df, k - 1).z >= 0
            /\ \A j \in (k + 1)..(Len(df) - 1) :
                  ~(Row(df, j).z < 0 /\ Row(df, j - 1).z >= 0)
    ELSE 0

\* np.argmax(z < 0): the first row with z < 0, or 0 when there is none
ArgmaxNegative(df) ==
    IF \E k \in 0..(Len(df) - 1) : Row(df, k).z < 0
    THEN CHOOSE k \in 0..(Len(df) - 1) :
            /\ Row(df, k).z < 0
            /\ \A j \in 0..(k - 1) : Row(df, j).z >= 0
    ELSE 0

\* a label of the frame's RangeIndex; any other label raises KeyError
ValidLabel(df, k) == k \in 0..(Len(df) - 1)

\* radians of degrees: deg / 180 * np.pi
Radians(deg) == RMul(RDiv(deg, FromInt(180)), Pi)

\* Scale with the upper bound 20.0 instead of 2.0
Scale_UpperBound20(a, b, p, curvature_yd) ==
    LET scale == FAdd(FMul(a, FPow(RAbs(curvature_yd), p)), b)
    IN  PyMax(ScaleMin, PyMin(scale, FromInt(20)))

\* scale = a * (abs(curvature_yd) ** p) + b, then max(0.1, min(scale, 2.0))
Scale(a, b, p, curvature_yd) ==
    LET scale == FAdd(FMul(a, FPow(RAbs(curvature_yd), p)), b)
    IN  PyMax(ScaleMin, PyMin(scale, ScaleMax))

\* ForcedStraight testing for exact zeros instead of the epsilon
ForcedStraight_ExactZero(sa, ws) == sa.n = 0 /\ ws.n = 0

\* the shot is forced straight: abs(spin_angle) < 1e-6 and abs(windspeed) < 1e-6
ForcedStraight(sa, ws) == RLt(RAbs(sa), StraightEps) /\ RLt(RAbs(ws), StraightEps)

\* Interpolate with the ratio taken from the far end: t = z2 / (z2 - z1)
Interpolate_WrongRatio(df, index) ==
    LET p1 == Row(df, index)
        p2 == Row(df, index + 1)
        t  == RDiv(FromInt(p2.z), FromInt(p2.z - p1.z))
    IN  [index |-> index,
         t |-> t,
         x |-> RAdd(FromInt(p1.x), RMul(t, FromInt(p2.x - p1.x))),
         y |-> RAdd(FromInt(p1.y), RMul(t, FromInt(p2.y - p1.y)))]

\* lines 130-134: the locals of the interpolation between rows index and index + 1
Interpolate(df, index) ==
    LET p1 == Row(df, index)
        p2 == Row(df, index + 1)
        t  == RDiv(FromInt(p1.z), FromInt(p1.z - p2.z))
    IN  [index |-> index,
         t |-> t,
         x |-> RAdd(FromInt(p1.x), RMul(t, FromInt(p2.x - p1.x))),
         y |-> RAdd(FromInt(p1.y), RMul(t, FromInt(p2.y - p1.y)))]

\* Adjust subtracting the scaled curvature instead of adding it
Adjust_SubtractsCurvature(x, y, hdeg, sa, ws, a, b, p) ==
    LET y_yd == RMul(y, YardsPerMeter)
        x_yd == RMul(x, YardsPerMeter)
        x_straight_yd == RMul(y_yd, TanDeg(hdeg))
        curvature_yd == RSub(x_yd, x_straight_yd)
        x_adjusted_yd ==
            IF ForcedStraight(sa, ws) THEN x_straight_yd
            ELSE RSub(x_straight_yd, RMul(curvature_yd, Scale(a, b, p, curvature_yd)))
    IN  RDiv(x_adjusted_yd, YardsPerMeter)

\* lines 137-154: the corrected lateral coordinate, in meters, of the raw
\* landing point (x, y)
Adjust(x, y, hdeg, sa, ws, a, b, p) ==
    LET y_yd == RMul(y, YardsPerMeter)
        x_yd == RMul(x, YardsPerMeter)
        x_straight_yd == RMul(y_yd, TanDeg(hdeg))
        curvature_yd == RSub(x_yd, x_straight_yd)
        x_adjusted_yd ==
            IF ForcedStraight(sa, ws) THEN x_straight_yd
            ELSE RAdd(x_straight_yd, RMul(curvature_yd, Scale(a, b, p, curvature_yd)))
    IN  RDiv(x_adjusted_yd, YardsPerMeter)

\* Returned giving the status whether or not check was requested
Returned_AlwaysStatus(x, y, e, chk) == [kind |-> "return", val |-> <<x, y, e>>]

\* the value of "return x_adjusted, y, err" or "return x_adjusted, y"
Returned(x, y, e, chk) ==
    [kind |-> "return", val |-> IF chk THEN <<x, y, e>> ELSE <<x, y>>]

\* Resolved taking the degenerate branch only for the never-lands status
Resolved_InterpolatesOnCrossings(df, e, chk, hdeg, sa, ws, a, b, p) ==
    IF e # NeverLands
    THEN LET index == ArgmaxNegative(df) - 1
         IN  IF ValidLabel(df, index) /\ ValidLabel(df, index + 1)
             THEN LET l == Interpolate(df, index)
                  IN  [landing |-> l,
                       ret |-> Returned(Adjust(l.x, l.y, hdeg, sa, ws, a, b, p), l.y, e, chk)]
             ELSE [landing |-> [index |-> index],
                   ret |-> [kind |-> "raise", val |-> <<"KeyError">>]]
    ELSE [landing |-> <<>>,
          ret |-> Returned(FromInt(0), FromInt(0), e, chk)]

\* Resolved raising on a non-empty status instead of returning (0, 0)
Resolved_RaisesOnStatus(df, e, chk, hdeg, sa, ws, a, b, p) ==
    IF e = NoError
    THEN LET index == ArgmaxNegative(df) - 1
         IN  IF ValidLabel(df, index) /\ ValidLabel(df, index + 1)
             THEN LET l == Interpolate(df, index)
                  IN  [landing |-> l,
                       ret |-> Returned(Adjust(l.x, l.y, hdeg, sa, ws, a, b, p), l.y, e, chk)]
             ELSE [landing |-> [index |-> index],
                   ret |-> [kind |-> "raise", val |-> <<"KeyError">>]]
    ELSE [landing |-> <<>>,
          ret |-> [kind |-> "raise", val |-> <<"ValueError">>]]

\* Resolved returning the carry in yards instead of the raw y in meters
Resolved_CarryInYards(df, e, chk, hdeg, sa, ws, a, b, p) ==
    IF e = NoError
    THEN LET index == ArgmaxNegative(df) - 1
         IN  IF ValidLabel(df, index) /\ ValidLabel(df, index + 1)
             THEN LET l == Interpolate(df, index)
                  IN  [landing |-> l,
                       ret |-> Returned(Adjust(l.x, l.y, hdeg, sa, ws, a, b, p),
                                        RMul(l.y, YardsPerMeter), e, chk)]
             ELSE [landing |-> [index |-> index],
                   ret |-> [kind |-> "raise", val |-> <<"KeyError">>]]
    ELSE [landing |-> <<>>,
          ret |-> Returned(FromInt(0), FromInt(0), e, chk)]

\* lines 128-160 on the samples df: the interpolation's locals and the returned
\* tuple, or the KeyError of the label index = -1 when no sample is below ground
Resolved(df, e, chk, hdeg, sa, ws, a, b, p) ==
    IF e = NoError
    THEN LET index == ArgmaxNegative(df) - 1
         IN  IF ValidLabel(df, index) /\ ValidLabel(df, index + 1)
             THEN LET l == Interpolate(df, index)
                  IN  [landing |-> l,
                       ret |-> Returned(Adjust(l.x, l.y, hdeg, sa, ws, a, b, p), l.y, e, chk)]
             ELSE [landing |-> [index |-> index],
                   ret |-> [kind |-> "raise", val |-> <<"KeyError">>]]
    ELSE [landing |-> <<>>,
          ret |-> Returned(FromInt(0), FromInt(0), e, chk)]

---------------------------------------------------------------------------
(* The state machine: one golf_ballstics object and one get_landingpos call. *)

\* the coefficient set of __init__ (lines 22-27, 31-32, 47, 54); a, b and p are
\* attributes only a calibration adds
NewAttrs ==
    [C_d0 |-> Rat(449, 2500), C_d1 |-> Rat(3761, 10000), C_d2 |-> Rat(247, 10000),
     C_d4 |-> Rat(159, 5000), C_l2 |-> FromInt(0), C_l4 |-> Rat(259, 10000),
     mu |-> Rat(9, 500000), Re_crit |-> FromInt(200000), timesteps |-> NumSamples,
     sn_Cl |-> << <<FromInt(0), Rat(1, 25), Rat(1, 10), Rat(1, 5), Rat(2, 5)>>,
                  <<FromInt(0), Rat(1, 10), Rat(4, 25), Rat(23, 100), Rat(33, 100)>> >>,
     a |-> <<>>, b |-> <<>>, p |-> <<>>]

\* the fields of an object that get_landingpos works on, after __init__
NewObject ==
    [endtime |-> InitialEndtime, df_simres |-> <<>>, horizontal_launch_angle_deg |-> <<>>,
     spin_angle |-> <<>>, windspeed |-> <<>>]

\* a caller that has not yet called get_landingpos on object o
NewThread(o) ==
    [pc |-> "idle", self |-> o, check |-> FALSE, curvature_scale_params |-> <<>>,
     kwargs |-> <<>>, i |-> 0, err |-> NoError, cont |-> FALSE, default_endtime |-> 0,
     own |-> <<>>, overlapped |-> FALSE, ret |-> [kind |-> "pending", val |-> <<>>]]

\* the callers
Threads == {1, 2}

\* one object and its caller, before the call
CallInit ==
    /\ endtime = InitialEndtime
    /\ df_simres = <<>>
    /\ horizontal_launch_angle_deg = <<>>
    /\ spin_angle = <<>>
    /\ windspeed = <<>>
    /\ pc = "idle"
    /\ check = FALSE
    /\ curvature_scale_params = <<>>
    /\ kwargs = <<>>
    /\ i = 0
    /\ err = NoError
    /\ cont = FALSE
    /\ default_endtime = 0
    /\ landing = <<>>
    /\ ret = [kind |-> "pending", val |-> <<>>]
    /\ ncalls = 0
    /\ attrs = NewAttrs
    /\ df_plot = <<>>
    /\ vshot = <<>>
    /\ lookup = <<>>
    /\ hit = <<>>
    /\ model = <<>>
    /\ classified = <<>>
    /\ flight = <<>>

\* the object after __init__; an attribute or local not yet assigned is <<>>;
\* concurrent callers have an object each
Init ==
    /\ CallInit
    /\ objects = [o \in Threads |-> NewObject]
    /\ threads = [t \in Threads |-> NewThread(t)]

\* get_landingpos is entered with arguments from the given sets: lines 102-107
CallWith(checks, params, shots) ==
    /\ pc = "idle"
    /\ \E chk \in checks, abp \in params, shot \in shots :
          /\ check' = chk
          /\ curvature_scale_params' = abp
          /\ kwargs' = shot
    /\ err' = NoError
    /\ cont' = TRUE
    /\ default_endtime' = endtime
    /\ i' = 0
    /\ pc' = "loop"
    /\ ncalls' = ncalls + 1
    /\ UNCHANGED <<endtime, df_simres, horizontal_launch_angle_deg, spin_angle,
                   windspeed, landing, ret>>
    /\ UNCHANGED <<attrs, concvars, viewvars, fnvars>>

\* a get_landingpos call on the object
Call == CallWith(BOOLEAN, ScaleParams, Shots)

\* AfterAttempt with the retry bound tested as i > imax
AfterAttempt_OffByOne(df, n) ==
    LET above == FinalHeight(df) > 0
        e == IF above THEN NeverLands
             ELSE IF check /\ Groups(df, Len(df)) - 1 > 1 THEN MultipleCrossings
             ELSE NoError
    IN  [err |-> e,
         endtime |-> IF above THEN endtime * 2 ELSE endtime,
         cont |-> above /\ ~(n > imax)]

\* AfterAttempt with the crossings counted before the final height is tested
AfterAttempt_ChecksFirst(df, n) ==
    LET above == FinalHeight(df) > 0
        e == IF check /\ Groups(df, Len(df)) - 1 > 1 THEN MultipleCrossings
             ELSE IF above THEN NeverLands
             ELSE NoError
    IN  [err |-> e,
         endtime |-> IF above THEN endtime * 2 ELSE endtime,
         cont |-> above /\ ~(n >= imax)]

\* what one pass of the while loop leaves in err, self.endtime and cont
\* after the samples df were stored: lines 111-124
AfterAttempt(df, n) ==
    LET above == FinalHeight(df) > 0
        e == IF above THEN NeverLands
             ELSE IF check /\ Groups(df, Len(df)) - 1 > 1 THEN MultipleCrossings
             ELSE NoError
    IN  [err |-> e,
         endtime |-> IF above THEN endtime * 2 ELSE endtime,
         cont |-> above /\ ~(n >= imax)]

\* InitiateHit keeping a spin axis the object already has
InitiateHit_StaleSpinAxis(shot) ==
    [horizontal_launch_angle_deg |-> shot.horizontal_launch_angle_deg,
     windspeed |-> shot.windspeed,
     spin_angle |-> IF spin_angle = <<>> THEN Radians(shot.spin_angle_deg) ELSE spin_angle]

\* the fields initiate_hit stores that get_landingpos reads back: lines 69-76
InitiateHit(shot) ==
    [horizontal_launch_angle_deg |-> shot.horizontal_launch_angle_deg,
     windspeed |-> shot.windspeed,
     spin_angle |-> Radians(shot.spin_angle_deg)]

\* one pass of the while loop: initiate_hit with simulate, whose result is
\* one of flights, then lines 111-124
AttemptWith(flights) ==
    /\ pc = "loop"
    /\ cont
    /\ i' = i + 1
    /\ horizontal_launch_angle_deg' = InitiateHit(kwargs).horizontal_launch_angle_deg
    /\ windspeed' = InitiateHit(kwargs).windspeed
    /\ spin_angle' = InitiateHit(kwargs).spin_angle
    /\ \E df \in flights :
          /\ df_simres' = df
          /\ err' = AfterAttempt(df, i + 1).err
          /\ endtime' = AfterAttempt(df, i + 1).endtime
          /\ cont' = AfterAttempt(df, i + 1).cont
    /\ UNCHANGED <<pc, check, curvature_scale_params, kwargs, default_endtime,
                   landing, ret, ncalls>>
    /\ UNCHANGED <<attrs, concvars, viewvars, fnvars>>

\* one pass of the while loop
Attempt == AttemptWith(Simulate(endtime, kwargs))

\* Finish without line 126: self.endtime keeps the loop's last value
Finish_NoRestore ==
    /\ pc = "loop"
    /\ ~cont
    /\ LET r == Resolved(df_simres, err, check, horizontal_launch_angle_deg, spin_angle,
                         windspeed, curvature_scale_params[1], curvature_scale_params[2],
                         curvature_scale_params[3])
       IN  /\ pc' = IF r.ret.kind = "raise" THEN "raised" ELSE "done"
           /\ landing' = r.landing
           /\ ret' = r.ret
    /\ UNCHANGED <<endtime, df_simres, horizontal_launch_angle_deg, spin_angle, windspeed,
                   check, curvature_scale_params, kwargs, i, err, cont, default_endtime,
                   ncalls>>
    /\ UNCHANGED <<attrs, concvars, viewvars, fnvars>>

\* Finish that puts the coefficient set back to the values of __init__
Finish_ResetsCoefficients ==
    /\ pc = "loop"
    /\ ~cont
    /\ endtime' = default_endtime
    /\ LET r == Resolved(df_simres, err, check, horizontal_launch_angle_deg, spin_angle,
                         windspeed, curvature_scale_params[1], curvature_scale_params[2],
                         curvature_scale_params[3])
       IN  /\ pc' = IF r.ret.kind = "raise" THEN "raised" ELSE "done"
           /\ landing' = r.landing
           /\ ret' = r.ret
    /\ attrs' = [attrs EXCEPT !.C_d0 = Rat(449, 2500), !.C_l2 = FromInt(0)]
    /\ UNCHANGED <<df_simres, horizontal_launch_angle_deg, spin_angle, windspeed,
                   check, curvature_scale_params, kwargs, i, err, cont, default_endtime,
                   ncalls>>
    /\ UNCHANGED <<concvars, viewvars, fnvars>>

\* the loop is left: lines 126-160
Finish ==
    /\ pc = "loop"
    /\ ~cont
    /\ endtime' = default_endtime
    /\ LET r == Resolved(df_simres, err, check, horizontal_launch_angle_deg, spin_angle,
                         windspeed, curvature_scale_params[1], curvature_scale_params[2],
                         curvature_scale_params[3])
       IN  /\ pc' = IF r.ret.kind = "raise" THEN "raised" ELSE "done"
           /\ landing' = r.landing
           /\ ret' = r.ret
    /\ UNCHANGED <<df_simres, horizontal_launch_angle_deg, spin_angle, windspeed,
                   check, curvature_scale_params, kwargs, i, err, cont, default_endtime,
                   ncalls>>
    /\ UNCHANGED <<attrs, concvars, viewvars, fnvars>>

Next == Call \/ Attempt \/ Finish

Spec == Init /\ [][Next]_vars

\* the next step of a call in progress: one more pass of the loop, or the
\* statements after the loop that end the call
LoopStep ==
    /\ pc = "loop"
    /\ pc' \in {"loop", "done", "raised"}
    /\ i' \in {i, i + 1}

\* the interpreter runs the body of get_landingpos to its end: a call in
\* progress takes its next step
FairSpec == Spec /\ WF_<<pc, i>>(LoopStep)

---------------------------------------------------------------------------
(* A sequence of get_landingpos calls on one object. *)

\* a call of the sequence
SeqCall == CallWith(BOOLEAN, {<<FromInt(0), Rat(1, 2), 0>>}, SeqShots)

\* one pass of the while loop of a call of the sequence
SeqAttempt == AttemptWith(Flights(endtime, kwargs))

\* the caller has the returned value or the exception and makes its next call:
\* the locals of the ended call are gone, the object stays as it is
Return ==
    /\ pc \in {"done", "raised"}
    /\ ncalls < MaxCalls
    /\ pc' = "idle"
    /\ check' = FALSE
    /\ curvature_scale_params' = <<>>
    /\ kwargs' = <<>>
    /\ i' = 0
    /\ err' = NoError
    /\ cont' = FALSE
    /\ default_endtime' = 0
    /\ landing' = <<>>
    /\ ret' = [kind |-> "pending", val |-> <<>>]
    /\ UNCHANGED <<endtime, df_simres, horizontal_launch_angle_deg, spin_angle,
                   windspeed, ncalls>>
    /\ UNCHANGED <<attrs, concvars, viewvars, fnvars>>

SeqNext == SeqCall \/ SeqAttempt \/ Finish \/ Return

SeqSpec == Init /\ [][SeqNext]_vars

---------------------------------------------------------------------------
(* Concurrent callers: two get_landingpos calls whose steps interleave, on  *)
(* an object each or on one shared object.  The steps are those between     *)
(* which another thread can run: saving endtime, integrating, testing the   *)
(* stored samples with the doubling of endtime, restoring endtime, reading  *)
(* the samples.                                                             *)

\* Target with every caller on object 1
Target_Shared(t) == 1

\* the object get_landingpos of caller t works on: its self
Target(t) == threads[t].self

\* caller t is inside get_landingpos
Active(t) == threads[t].pc \notin {"idle", "done", "raised"}

\* some other caller is inside get_landingpos
OthersActive(t) == \E u \in Threads \ {t} : Active(u)

\* lines 102-107: the call is entered and self.endtime saved
SaveEndtime(t) ==
    /\ threads[t].pc = "idle"
    /\ \E shot \in SeqShots :
          threads' = [u \in Threads |->
             IF u = t
             THEN [threads[t] EXCEPT !.pc = "integrate",
                                     !.check = FALSE,
                                     !.curvature_scale_params = <<FromInt(0), Rat(1, 2), 0>>,
                                     !.kwargs = shot,
                                     !.i = 0,
                                     !.err = NoError,
                                     !.cont = TRUE,
                                     !.default_endtime = objects[Target(t)].endtime,
                                     !.overlapped = OthersActive(t)]
             ELSE [threads[u] EXCEPT !.overlapped = @ \/ Active(u)]]
    /\ UNCHANGED <<objects, callvars, attrs, viewvars, fnvars>>

\* lines 110-113: initiate_hit stores the shot and simulate() the samples of
\* an integration over the object's current endtime
Integrate(t) ==
    /\ threads[t].pc = "integrate"
    /\ LET o == Target(t)
           f == InitiateHit(threads[t].kwargs)
       IN  \E df \in Descents(objects[o].endtime, threads[t].kwargs) :
              /\ objects' = [objects EXCEPT ![o] =
                     [@ EXCEPT !.df_simres = df,
                               !.horizontal_launch_angle_deg = f.horizontal_launch_angle_deg,
                               !.windspeed = f.windspeed,
                               !.spin_angle = f.spin_angle]]
              /\ threads' = [threads EXCEPT ![t] =
                     [@ EXCEPT !.pc = "test", !.i = @ + 1, !.err = NoError,
                               !.cont = FALSE, !.own = df]]
    /\ UNCHANGED <<callvars, attrs, viewvars, fnvars>>

\* lines 115-124: the stored samples are tested and self.endtime doubled
\* when their last height is above ground
DoubleEndtime(t) ==
    /\ threads[t].pc = "test"
    /\ LET o == Target(t)
           df == objects[o].df_simres
           above == FinalHeight(df) > 0
           e == IF above THEN NeverLands
                ELSE IF threads[t].check /\ Groups(df, Len(df)) - 1 > 1 THEN MultipleCrossings
                ELSE NoError
           c == above /\ ~(threads[t].i >= imax)
       IN  /\ objects' = [objects EXCEPT ![o] =
                  [@ EXCEPT !.endtime = IF above THEN @ * 2 ELSE @]]
           /\ threads' = [threads EXCEPT ![t] =
                  [@ EXCEPT !.err = e, !.cont = c,
                            !.pc = IF c THEN "integrate" ELSE "restore"]]
    /\ UNCHANGED <<callvars, attrs, viewvars, fnvars>>

\* RestoreEndtime leaving self.endtime as the loop left it
RestoreEndtime_Skipped(t) ==
    /\ threads[t].pc = "restore"
    /\ objects' = objects
    /\ threads' = [threads EXCEPT ![t] = [@ EXCEPT !.pc = "read"]]
    /\ UNCHANGED <<callvars, attrs, viewvars, fnvars>>

\* line 126: self.endtime = default_endtime
RestoreEndtime(t) ==
    /\ threads[t].pc = "restore"
    /\ objects' = [objects EXCEPT ![Target(t)] =
           [@ EXCEPT !.endtime = threads[t].default_endtime]]
    /\ threads' = [threads EXCEPT ![t] = [@ EXCEPT !.pc = "read"]]
    /\ UNCHANGED <<callvars, attrs, viewvars, fnvars>>

\* lines 128-160: the landing point is read from the stored samples and fields
ReadSamples(t) ==
    /\ threads[t].pc = "read"
    /\ LET ob == objects[Target(t)]
           abp == threads[t].curvature_scale_params
           r == Resolved(ob.df_simres, threads[t].err, threads[t].check,
                         ob.horizontal_launch_angle_deg, ob.spin_angle, ob.windspeed,
                         abp[1], abp[2], abp[3])
       IN  threads' = [threads EXCEPT ![t] =
              [@ EXCEPT !.ret = r.ret,
                        !.pc = IF r.ret.kind = "raise" THEN "raised" ELSE "done"]]
    /\ UNCHANGED <<objects, callvars, attrs, viewvars, fnvars>>

\* a step of caller t
ThreadStep(t) ==
    \/ SaveEndtime(t)
    \/ Integrate(t)
    \/ DoubleEndtime(t)
    \/ RestoreEndtime(t)
    \/ ReadSamples(t)

ParNext == \E t \in Threads : ThreadStep(t)

\* two callers, each with its own object
ParSpec == Init /\ [][ParNext]_vars

\* two callers with one object: both call get_landingpos on object 1
SharedInit ==
    /\ CallInit
    /\ objects = [o \in Threads |-> NewObject]
    /\ threads = [t \in Threads |-> NewThread(1)]

SharedSpec == SharedInit /\ [][ParNext]_vars

---------------------------------------------------------------------------
(* The 3D viewer's callback update_trajectory: a new object, initiate_hit   *)
(* for the plotted curve, then get_landingpos(check=True) for the marker.   *)

\* update_trajectory passes no curvature_scale_params: the default is
\* (-0.0666, 0.8673, 0.5023).  The non-integer power is not computed here: the
\* scale is taken at b, the largest value the default gives (its a is negative)
ViewerScaleParams == <<FromInt(0), Rat(8673, 10000), 0>>

\* df[df['z'] >= 0]
AboveGround(df) == SelectSeq(df, LAMBDA row : row.z >= 0)

\* lines 347-383: initiate_hit on a new object, and the samples with z >= 0
\* taken from its df_simres for the plotted curve
PlotTrajectory ==
    /\ pc = "idle"
    /\ vshot = <<>>
    /\ \E shot \in Shots :
          /\ vshot' = shot
          /\ horizontal_launch_angle_deg' = InitiateHit(shot).horizontal_launch_angle_deg
          /\ windspeed' = InitiateHit(shot).windspeed
          /\ spin_angle' = InitiateHit(shot).spin_angle
          /\ \E df \in Flights(endtime, shot) :
                /\ df_simres' = df
                /\ df_plot' = AboveGround(df)
    /\ UNCHANGED <<pc, i, endtime, check, curvature_scale_params, kwargs, err, cont,
                   default_endtime, landing, ret, ncalls, attrs, concvars, fnvars>>

\* lines 406-416: get_landingpos(check=True, ...) with the same inputs
ViewerCall ==
    /\ vshot # <<>>
    /\ CallWith({TRUE}, {ViewerScaleParams}, {vshot})

\* what simulate() gives in the viewer's get_landingpos call: the first
\* attempt integrates the same shot over the same horizon as initiate_hit
\* did and gets the samples still stored; a retry over a doubled horizon
\* gets new ones
Reintegrate(horizon, shot) ==
    IF i = 0 THEN {df_simres} ELSE Flights(horizon, shot)

\* one pass of the while loop of the viewer's call
ViewerAttempt == AttemptWith(Reintegrate(endtime, kwargs))

ViewerNext == PlotTrajectory \/ ViewerCall \/ ViewerAttempt \/ Finish

ViewerSpec == Init /\ [][ViewerNext]_vars

---------------------------------------------------------------------------
(* The calibration callers: between the get_landingpos calls of their       *)
(* objective functions they write the coefficients onto the object.         *)

\* parameter lists in param_order (C_d0, C_d1, C_d2, C_d4, C_l4, a, b, p): the
\* lower and the upper end of the optimizer's bounds, a at 0 and p an integer
ParamsLists ==
    { <<Rat(1, 10), Rat(1, 5), Rat(3, 100), Rat(1, 100), Rat(1, 100), FromInt(0), Rat(1, 2), 1>>,
      <<Rat(3, 10), Rat(1, 2), Rat(2, 25), Rat(1, 20), Rat(1, 20), FromInt(0), FromInt(1), 2>> }

\* coefficient lists (C_d0, C_d1, C_d2, C_l2) within optimize_coefficients' bounds
CoeffsLists ==
    { <<Rat(1, 10), Rat(1, 10), FromInt(0), Rat(1, 20)>>,
      <<Rat(1, 2), Rat(1, 2), Rat(1, 5), Rat(1, 10)>> }

\* set_params(params_list, param_order): setattr for every key
SetParams ==
    /\ pc = "idle"
    /\ \E pl \in ParamsLists :
          attrs' = [attrs EXCEPT !.C_d0 = pl[1], !.C_d1 = pl[2], !.C_d2 = pl[3],
                                 !.C_d4 = pl[4], !.C_l4 = pl[5],
                                 !.a = pl[6], !.b = pl[7], !.p = pl[8]]
    /\ UNCHANGED <<callvars, concvars, viewvars, fnvars>>

\* model.C_d0, model.C_d1, model.C_d2, model.C_l2 = coeffs
SetCoefficients ==
    /\ pc = "idle"
    /\ \E coeffs \in CoeffsLists :
          attrs' = [attrs EXCEPT !.C_d0 = coeffs[1], !.C_d1 = coeffs[2],
                                 !.C_d2 = coeffs[3], !.C_l2 = coeffs[4]]
    /\ UNCHANGED <<callvars, concvars, viewvars, fnvars>>

\* the scaling parameters of a call that passes none: the object's a, b, p
\* once set_params has set them, else those of the sequence
OwnScaleParams ==
    IF attrs.a = <<>> THEN <<FromInt(0), Rat(1, 2), 0>> ELSE <<attrs.a, attrs.b, attrs.p>>

\* a get_landingpos call of an objective function: no check
CalibCall == CallWith({FALSE}, {OwnScaleParams}, SeqShots)

CalibNext == SetParams \/ SetCoefficients \/ CalibCall \/ SeqAttempt \/ Finish \/ Return

CalibSpec == Init /\ [][CalibNext]_vars

(* The optimizer variant of get_landingpos (model_weight_optimizer_v3.py):  *)
(* curvature_scale_params defaults to None and then stands for the          *)
(* object's own a, b, p.                                                    *)

\* the parameters a caller passes explicitly; none of them is a triple that
\* set_params stores
ExplicitScaleParams == { <<FromInt(1), FromInt(0), 1>>, <<FromInt(0), FromInt(1), -1>> }

\* StoredScaleParams reading the values the object was constructed with
StoredScaleParams_AsConstructed == <<FromInt(0), Rat(1, 2), 1>>

\* a, b, p = self.a, self.b, self.p
StoredScaleParams == <<attrs.a, attrs.b, attrs.p>>

\* a call without curvature_scale_params, as objective_function makes it
\* after its set_params
OptCallStored ==
    /\ attrs.a # <<>>
    /\ CallWith({FALSE}, {StoredScaleParams}, SeqShots)

\* a call with curvature_scale_params given
OptCallExplicit == CallWith({FALSE}, ExplicitScaleParams, SeqShots)

OptNext == SetParams \/ OptCallStored \/ OptCallExplicit \/ SeqAttempt \/ Finish \/ Return

OptSpec == Init /\ [][OptNext]_vars

(* Degenerate input: get_landingpos passes mass and radius through to       *)
(* initiate_hit, which stores them unvalidated.                             *)

\* a shot with the ball's mass and radius given; rho at its default 1.225
WithBall(shot, m, r) ==
    [horizontal_launch_angle_deg |-> shot.horizontal_launch_angle_deg,
     spin_angle_deg |-> shot.spin_angle_deg,
     windspeed |-> shot.windspeed,
     mass |-> m, radius |-> r, rho |-> Rat(49, 40)]

\* a ball of 0.05 kg and 0.02 m (the default is 0.0455 kg, 0.0213 m) and
\* balls of zero mass or radius
DegShots ==
    { WithBall(shot, m, r) : shot \in SeqShots,
                             m \in {FromInt(0), Rat(1, 20)},
                             r \in {FromInt(0), Rat(1, 50)} }

\* B(): rho * area / (2 * mass), for mass # 0
B(shot) ==
    LET area == RMul(Pi, RMul(shot.radius, shot.radius))
    IN  RDiv(RMul(shot.rho, area), RMul(FromInt(2), shot.mass))

\* the results of simulate() for a ball of mass # 0.  With B() = 0 the drag
\* and lift terms of model() are 0 and only -g acts: the samples are finite,
\* the height rises and then falls
DegSimulate(horizon, shot) ==
    IF B(shot) = FromInt(0) THEN Descents(horizon, shot) ELSE Flights(horizon, shot)

\* a call with the ball's mass and radius among its arguments
DegCall == CallWith(BOOLEAN, {<<FromInt(0), Rat(1, 2), 0>>}, DegShots)

\* one pass of the while loop for a ball of mass # 0
DegAttempt ==
    /\ kwargs # <<>>
    /\ kwargs.mass # FromInt(0)
    /\ AttemptWith(DegSimulate(endtime, kwargs))

\* one pass of the while loop for a ball of mass 0: initiate_hit stores its
\* fields, simulate stores the time column, and the first evaluation of B()
\* divides by 2 * mass = 0, which raises ZeroDivisionError out of the call
DegRaise ==
    /\ pc = "loop"
    /\ cont
    /\ kwargs.mass = FromInt(0)
    /\ horizontal_launch_angle_deg' = InitiateHit(kwargs).horizontal_launch_angle_deg
    /\ windspeed' = InitiateHit(kwargs).windspeed
    /\ spin_angle' = InitiateHit(kwargs).spin_angle
    /\ df_simres' = [k \in 1..NumSamples |-> [t |-> Linspace(endtime, k - 1)]]
    /\ pc' = "raised"
    /\ ret' = [kind |-> "raise", val |-> <<"ZeroDivisionError">>]
    /\ UNCHANGED <<i, endtime, check, curvature_scale_params, kwargs, err, cont,
                   default_endtime, landing, ncalls>>
    /\ UNCHANGED <<attrs, concvars, viewvars, fnvars>>

DegNext == DegCall \/ DegAttempt \/ DegRaise \/ Finish

DegSpec == Init /\ [][DegNext]_vars

(* The lift table lookup of Cl: np.interp(x=sn, xp=sn_Cl[0], fp=sn_Cl[1]). *)

\* np.interp on one value x: nan gives nan, a value left of the table the
\* first entry, a value at or right of the last breakpoint the last entry, else
\* slope * (x - xp[j]) + fp[j] on the interval xp[j] <= x < xp[j+1]
Interp(x, xp, fp) ==
    IF x = NaN THEN NaN
    ELSE IF FLt(x, xp[1]) THEN fp[1]
    ELSE IF FLe(xp[Len(xp)], x) THEN fp[Len(fp)]
    ELSE LET j == CHOOSE k \in 1..(Len(xp) - 1) : RLe(xp[k], x) /\ RLt(x, xp[k + 1])
             slope == RDiv(RSub(fp[j + 1], fp[j]), RSub(xp[j + 1], xp[j]))
         IN  RAdd(RMul(slope, RSub(x, xp[j])), fp[j])

\* the values effective_spin can return: omega * 2 * pi * radius / v is a
\* finite number of either sign, inf or -inf for v = 0, and nan for 0 / 0
SpinParameters == { Rat(k, 200) : k \in -20..100 } \cup {NaN, PInf, NInf}

\* one evaluation of the lookup
Lookup ==
    /\ \E sn \in SpinParameters :
          lookup' = [sn |-> sn, cl |-> Interp(sn, attrs.sn_Cl[1], attrs.sn_Cl[2])]
    /\ UNCHANGED <<callvars, attrs, concvars, viewvars, hit, model, classified, flight>>

LookupNext == Lookup

LookupSpec == Init /\ [][LookupNext]_vars

(* The vectors of initiate_hit and the right-hand side model(state, t). *)

\* the rounding residue of libm's sin and cos at the multiples of pi/2 the
\* floats can only approximate: cos(pi/2) = 6.1232e-17 is one residue,
\* sin(pi) = 1.2246e-16 is two, cos(3*pi/2) = -1.8370e-16 is minus three.
\* The value stands for 6.1232e-17, which the integers here cannot hold
Residue == Rat(1, 10000)

\* np.sin(deg / 180 * np.pi) at multiples of 90 degrees
SinDeg(deg) ==
    CASE deg = 0 -> FromInt(0)
      [] deg = 90 -> FromInt(1)
      [] deg = 180 -> RMul(FromInt(2), Residue)
      [] deg = 270 -> FromInt(-1)
      [] deg = -90 -> FromInt(-1)

\* np.cos(deg / 180 * np.pi) at multiples of 90 degrees
CosDeg(deg) ==
    CASE deg = 0 -> FromInt(1)
      [] deg = 90 -> Residue
      [] deg = 180 -> FromInt(-1)
      [] deg = 270 -> RMul(FromInt(-3), Residue)
      [] deg = -90 -> Residue

\* a vector times a scalar, and the difference of two vectors
Scaled(c, v) == [k \in 1..3 |-> RMul(c, v[k])]

VecSub(v, w) == [k \in 1..3 |-> RSub(v[k], w[k])]

VecAdd(v, w) == [k \in 1..3 |-> RAdd(v[k], w[k])]

\* lines 80-86 with the wind along the ball's direction of flight reversed
WindVelocity_Reversed(windspeed_arg, windheading_deg) ==
    Scaled(windspeed_arg, <<SinDeg(windheading_deg), RNeg(CosDeg(windheading_deg)), FromInt(0)>>)

\* lines 80-86: windspeed * np.array([sin(windheading), cos(windheading), 0])
WindVelocity(windspeed_arg, windheading_deg) ==
    Scaled(windspeed_arg, <<SinDeg(windheading_deg), CosDeg(windheading_deg), FromInt(0)>>)

\* lines 71-78: velocity * np.array([cos(theta)*sin(psi), cos(theta)*cos(psi), sin(theta)])
BallVelocity(velocity, launch_angle_deg, hla_deg) ==
    Scaled(velocity, <<RMul(CosDeg(launch_angle_deg), SinDeg(hla_deg)),
                       RMul(CosDeg(launch_angle_deg), CosDeg(hla_deg)),
                       SinDeg(launch_angle_deg)>>)

\* the arguments of an initiate_hit call: speeds in m/s, angles in degrees,
\* spin in rpm.  The ball has radius 0.02 m and the mass 0.0565 kg that makes
\* B() = 1/100 in air of 0.9 kg/m^3, g is 10 m/s^2 and the spin axis is 0 (where
\* sin and cos are exact): values whose products stay within the width of the
\* integers
HitArgs ==
    [velocity : {FromInt(0), FromInt(50)},
     launch_angle_deg : {0, 90},
     horizontal_launch_angle_deg : {0, 90, -90},
     spin_rpm : {FromInt(0), FromInt(6780)},
     spin_angle_deg : {0},
     windspeed : {FromInt(0), FromInt(4), Rat(1, 2)},
     windheading_deg : {0, 90, 180, 270}]

\* initiate_hit, lines 62-86: the fields model() reads
SetVectors ==
    /\ hit = <<>>
    /\ \E a \in HitArgs :
          hit' = [args |-> a,
                  mass |-> Rat(639, 11300), radius |-> Rat(1, 50), rho |-> Rat(9, 10),
                  g |-> FromInt(10),
                  spin |-> RDiv(a.spin_rpm, FromInt(60)),
                  spin_angle_deg |-> a.spin_angle_deg,
                  velocity |-> BallVelocity(a.velocity, a.launch_angle_deg,
                                            a.horizontal_launch_angle_deg),
                  windvelocity |-> WindVelocity(a.windspeed, a.windheading_deg)]
    /\ model' = <<>>
    /\ UNCHANGED <<callvars, attrs, concvars, viewvars, lookup, classified, flight>>

\* np.linalg.norm of a vector of integers whose norm is an integer
Norm(v) ==
    LET s == v[1].n * v[1].n + v[2].n * v[2].n + v[3].n * v[3].n
    IN  FromInt(CHOOSE r \in 0..s : r * r = s)

\* B(), effective_spin, reynolds_number, Cd and Cl for the fields h, the
\* coefficients c, relative speed v and spin omega
BOf(h) == RDiv(RMul(h.rho, RMul(Pi, RMul(h.radius, h.radius))), RMul(FromInt(2), h.mass))

EffectiveSpin(h, v, omega) ==
    FOver(RMul(RMul(RMul(omega, FromInt(2)), Pi), h.radius), v)

ReynoldsNumber(h, c, v) ==
    RDiv(RMul(RMul(h.rho, v), RMul(FromInt(2), h.radius)), c.mu)

Cd(h, c, v, omega) ==
    LET sn == EffectiveSpin(h, v, omega)
        Re == ReynoldsNumber(h, c, v)
    IN  FPlus(FPlus(FPlus(c.C_d0, FTimes(c.C_d1, sn)),
                    RDiv(c.C_d2, RAdd(FromInt(1), RDiv(Re, c.Re_crit)))),
              RMul(c.C_d4, RAbs(SinDeg(h.spin_angle_deg))))

Cl(h, c, v, omega) ==
    LET sn == EffectiveSpin(h, v, omega)
        cl == Interp(sn, c.sn_Cl[1], c.sn_Cl[2])
        Re == ReynoldsNumber(h, c, v)
    IN  FTimes(FTimes(cl, RAdd(FromInt(1), RMul(c.C_l2, RDiv(Re, c.Re_crit)))),
               RAdd(FromInt(1), RMul(c.C_l4, RMul(SinDeg(h.spin_angle_deg),
                                                  SinDeg(h.spin_angle_deg)))))

\* model(state, t), lines 188-205
Model(h, c, state) ==
    LET v_rel == VecSub(<<state[4], state[5], state[6]>>, h.windvelocity)
        u  == Norm(v_rel)
        sa == SinDeg(h.spin_angle_deg)
        ca == CosDeg(h.spin_angle_deg)
        Bu == FTimes(RNeg(BOf(h)), u)
        cl == Cl(h, c, u, state[7])
        cd == Cd(h, c, u, state[7])
        ux == v_rel[1]
        uy == v_rel[2]
        uz == v_rel[3]
    IN  [state |-> state, v_rel |-> v_rel, u |-> u,
         result |-> <<state[4], state[5], state[6],
                      FTimes(Bu, FPlus(FTimes(cd, ux), FMinus(FTimes(FTimes(cl, uy), sa)))),
                      FTimes(Bu, FPlus(FTimes(cd, uy),
                                       FMinus(FTimes(cl, FPlus(FTimes(ux, sa), FMinus(FTimes(uz, ca))))))),
                      FPlus(RNeg(h.g), FMinus(FTimes(RMul(BOf(h), u),
                                       FPlus(FTimes(cd, uz), FMinus(FTimes(FTimes(cl, uy), ca)))))),
                      FromInt(0)>>]

\* relative velocities with integer components and an integer norm
RelativeVelocities ==
    { <<FromInt(0), FromInt(0), FromInt(0)>>,
      <<FromInt(0), FromInt(40), FromInt(30)>>,
      <<FromInt(0), FromInt(30), FromInt(-40)>>,
      <<FromInt(30), FromInt(40), FromInt(0)>>,
      <<FromInt(-40), FromInt(0), FromInt(30)>>,
      <<FromInt(0), FromInt(80), FromInt(60)>>,
      <<FromInt(0), FromInt(50), FromInt(0)>>,
      <<FromInt(0), FromInt(0), FromInt(-50)>> }

\* the coefficient sets of a calibrated object: set_params with the lower and
\* with the upper end of the optimizer's bounds
CoefficientSets ==
    { [NewAttrs EXCEPT !.C_d0 = pl[1], !.C_d1 = pl[2], !.C_d2 = pl[3],
                       !.C_d4 = pl[4], !.C_l4 = pl[5]] : pl \in ParamsLists }

\* the wind vector has integer components
IntegerWind == \A k \in 1..3 : hit.windvelocity[k].d = 1

\* one evaluation of model() by the integrator, at a state whose velocity
\* relative to the air is one of RelativeVelocities and whose spin is the
\* stored one
EvalModel ==
    /\ hit # <<>>
    /\ IntegerWind
    /\ \E v_rel \in RelativeVelocities, c \in CoefficientSets :
          model' = Model(hit, c,
                         <<FromInt(0), FromInt(0), FromInt(0)>>
                            \o VecAdd(v_rel, hit.windvelocity) \o <<hit.spin>>)
    /\ UNCHANGED <<callvars, attrs, concvars, viewvars, lookup, hit, classified, flight>>

ForceNext == SetVectors \/ EvalModel

ForceSpec == Init /\ [][ForceNext]_vars

(* classify_shot, the shot labels of Physics_Model_v3.py and               *)
(* Physics_Model_v6.py.                                                     *)

\* classify_shot of Physics_Model_v3.py, lines 228-249
ClassifyShotV3(launch_h, spin_axis) ==
    IF FLt(launch_h, FromInt(0))
    THEN (IF FLt(spin_axis, FromInt(0)) THEN "Pull Draw"
          ELSE IF spin_axis = FromInt(0) THEN "Pull"
          ELSE "Pull Fade")
    ELSE IF launch_h = FromInt(0)
    THEN (IF FLt(spin_axis, FromInt(0)) THEN "Draw"
          ELSE IF spin_axis = FromInt(0) THEN "Straight"
          ELSE "Fade")
    ELSE (IF FLt(spin_axis, FromInt(0)) THEN "Push Draw"
          ELSE IF spin_axis = FromInt(0) THEN "Push"
          ELSE "Push Fade")

\* ClassifyShotV6 with the labels of the two spin-axis signs exchanged
ClassifyShotV6_FadeNegative(launch_h_deg, spin_axis_deg) ==
    IF FLt(launch_h_deg, FromInt(0))
    THEN (IF FLt(spin_axis_deg, FromInt(0)) THEN "Pull Fade"
          ELSE IF spin_axis_deg = FromInt(0) THEN "Pull"
          ELSE "Pull Draw")
    ELSE IF launch_h_deg = FromInt(0)
    THEN (IF FLt(spin_axis_deg, FromInt(0)) THEN "Fade"
          ELSE IF spin_axis_deg = FromInt(0) THEN "Straight"
          ELSE "Draw")
    ELSE IF FLt(FromInt(0), launch_h_deg)
    THEN (IF FLt(spin_axis_deg, FromInt(0)) THEN "Push Fade"
          ELSE IF spin_axis_deg = FromInt(0) THEN "Push"
          ELSE IF FLt(FromInt(0), spin_axis_deg) THEN "Push Draw"
          ELSE "None")
    ELSE "Unknown"

\* classify_shot of Physics_Model_v6.py, lines 254-280; "None" is the value
\* of the call when the last elif chain ends without a return
ClassifyShotV6(launch_h_deg, spin_axis_deg) ==
    IF FLt(launch_h_deg, FromInt(0))
    THEN (IF FLt(spin_axis_deg, FromInt(0)) THEN "Pull Draw"
          ELSE IF spin_axis_deg = FromInt(0) THEN "Pull"
          ELSE "Pull Fade")
    ELSE IF launch_h_deg = FromInt(0)
    THEN (IF FLt(spin_axis_deg, FromInt(0)) THEN "Draw"
          ELSE IF spin_axis_deg = FromInt(0) THEN "Straight"
          ELSE "Fade")
    ELSE IF FLt(FromInt(0), launch_h_deg)
    THEN (IF FLt(spin_axis_deg, FromInt(0)) THEN "Push Draw"
          ELSE IF spin_axis_deg = FromInt(0) THEN "Push"
          ELSE IF FLt(FromInt(0), spin_axis_deg) THEN "Push Fade"
          ELSE "None")
    ELSE "Unknown"

\* the values of the columns 'Launch H (deg)' and 'Spin Axis (deg)' after
\* pd.to_numeric and dropna: floats that are not nan
Degrees ==
    { FromInt(-30), Rat(-5, 2), FromInt(-1), Rat(-1, 10), FromInt(0), Rat(1, 10),
      FromInt(1), Rat(5, 2), FromInt(30), PInf, NInf }

\* df.apply(lambda row: classify_shot(row['Launch H (deg)'], row['Spin Axis (deg)']))
\* on one row, by both versions
Classify ==
    /\ \E launch_h \in Degrees, spin_axis \in Degrees :
          classified' = [launch_h |-> launch_h, spin_axis |-> spin_axis,
                         v3 |-> ClassifyShotV3(launch_h, spin_axis),
                         v6 |-> ClassifyShotV6(launch_h, spin_axis)]
    /\ UNCHANGED <<callvars, attrs, concvars, viewvars, lookup, hit, model, flight>>

ClassifyNext == Classify

ClassifySpec == Init /\ [][ClassifyNext]_vars

(* adjust_trajectory, the Euler-step flight of golf_trajectory_calculator.py, *)
(* golf_trajectory_optimizer.py and trajectory_gui.py.  Time is counted in    *)
(* steps of dt, velocities in units of g * dt and lengths in units of         *)
(* g * dt^2, so that one step of gravity alone is v_y - 1 and y + v_y; the    *)
(* factor 0.5 * rho * A / ball_mass_kg is part of the coefficients.  The spin *)
(* axis is 0 (cos = 1, sin = 0) and the spin does not decay.                  *)

\* 3.28084 feet per meter
FeetPerMeter == Rat(82021, 25000)

\* np.sqrt on the sums of squares of the flights below: nan for nan, the root
\* of a square, and the root rounded down otherwise (where it only ever
\* multiplies or divides a force that is 0)
FSqrt(x) ==
    IF x = NaN THEN NaN
    ELSE FromInt(CHOOSE r \in 0..x.n : r * r <= x.n /\ x.n < (r + 1) * (r + 1))

\* a shot: the variant, the initial velocity components, the wind components
\* and the coefficients (C_d and C_l of the calculator and the optimizer;
\* C_d_base, C_d_v and C_l_scale * backspin of the GUI)
EulerShot(variant, v, wind_x_ms, C_d, C_d_v, C_l) ==
    [variant |-> variant, v |-> v, wind_x_ms |-> wind_x_ms, wind_z_ms |-> FromInt(0),
     C_d |-> C_d, C_d_v |-> C_d_v, C_l |-> C_l]

Variants == {"calculator", "optimizer", "gui"}

\* the shots: flights under gravity alone (coefficients 0) with and without a
\* tailwind of the ball's own speed; a ball at rest in still air with drag
\* and lift coefficients; a ball of speed 5 with a drag that stops it in one
\* step; and, where the speed is typed in, a ball speed of nan
EulerShots ==
    { EulerShot(variant, <<FromInt(vx), FromInt(vy), FromInt(vz)>>, FromInt(w),
                FromInt(0), FromInt(0), FromInt(0)) :
        variant \in Variants, vx \in {0, 4}, vy \in 0..4, vz \in {0, 1}, w \in {0, 4} }
    \cup { EulerShot(variant, <<FromInt(0), FromInt(0), FromInt(0)>>, FromInt(0),
                     Rat(1, 5), Rat(1, 25), Rat(1, 5)) : variant \in Variants }
    \cup { EulerShot(variant, <<FromInt(4), FromInt(3), FromInt(0)>>, FromInt(0),
                     IF variant = "gui" THEN FromInt(0) ELSE Rat(1, 5),
                     IF variant = "gui" THEN Rat(1, 25) ELSE FromInt(0),
                     FromInt(0)) : variant \in Variants }
    \cup { EulerShot(variant, <<NaN, NaN, NaN>>, FromInt(0),
                     FromInt(0), FromInt(0), FromInt(0)) : variant \in {"calculator", "gui"} }

\* the locals before the loop: t = 0, the ball at the origin
Launched(shot) ==
    [shot |-> shot, pc |-> "loop", t |-> 0,
     x |-> FromInt(0), y |-> FromInt(0), z |-> FromInt(0),
     v_x |-> shot.v[1], v_y |-> shot.v[2], v_z |-> shot.v[3],
     v_mag |-> <<>>, F_d |-> <<>>, F_l |-> <<>>,
     max_height_m |-> FromInt(0),
     trajectory_points |-> IF shot.variant = "gui"
                           THEN << <<FromInt(0), FromInt(0), FromInt(0)>> >> ELSE <<>>,
     ret |-> <<>>]

\* the body of "while y >= 0": relative velocity, drag, lift, acceleration,
\* velocity and position update; the calculator tracks no maximum height and
\* only the GUI keeps the points
EulerBody(f) ==
    LET s       == f.shot
        v_rel_x == FPlus(f.v_x, FMinus(s.wind_x_ms))
        v_rel_z == FPlus(f.v_z, FMinus(s.wind_z_ms))
        v_mag   == FSqrt(FPlus(FPlus(FTimes(v_rel_x, v_rel_x), FTimes(f.v_y, f.v_y)),
                               FTimes(v_rel_z, v_rel_z)))
        moving  == FLt(FromInt(0), v_mag)
        C_d     == IF s.variant = "gui" THEN FPlus(s.C_d, FTimes(s.C_d_v, v_mag)) ELSE s.C_d
        F_d     == FTimes(C_d, FTimes(v_mag, v_mag))
        F_d_x   == IF moving THEN FOver(FTimes(FMinus(F_d), v_rel_x), v_mag) ELSE FromInt(0)
        F_d_y   == IF moving THEN FOver(FTimes(FMinus(F_d), f.v_y), v_mag) ELSE FromInt(0)
        F_d_z   == IF moving THEN FOver(FTimes(FMinus(F_d), v_rel_z), v_mag) ELSE FromInt(0)
        C_l     == IF s.variant = "gui"
                   THEN (IF moving THEN FOver(s.C_l, v_mag) ELSE FromInt(0))
                   ELSE s.C_l
        F_l     == FTimes(C_l, FTimes(v_mag, v_mag))
        F_l_y   == F_l
        F_l_z   == FTimes(F_l, FromInt(0))
        a_x     == F_d_x
        a_y     == FPlus(FPlus(F_d_y, F_l_y), FromInt(-1))
        a_z     == FPlus(F_d_z, F_l_z)
        v_x     == FPlus(f.v_x, a_x)
        v_y     == FPlus(f.v_y, a_y)
        v_z     == FPlus(f.v_z, a_z)
        x       == FPlus(f.x, v_x)
        y       == FPlus(f.y, v_y)
        z       == FPlus(f.z, v_z)
    IN  [f EXCEPT !.t = f.t + 1,
                  !.x = x, !.y = y, !.z = z,
                  !.v_x = v_x, !.v_y = v_y, !.v_z = v_z,
                  !.v_mag = v_mag,
                  !.F_d = <<F_d_x, F_d_y, F_d_z>>,
                  !.F_l = <<F_l_y, F_l_z>>,
                  !.max_height_m = IF s.variant = "calculator" THEN f.max_height_m
                                   ELSE PyMax(f.max_height_m, y),
                  !.trajectory_points = IF s.variant = "gui"
                                        THEN Append(f.trajectory_points, <<x, y, z>>)
                                        ELSE f.trajectory_points]

\* the returned tuple: carry in yards, side and maximum height in feet
EulerResult(f) ==
    IF f.shot.variant = "calculator"
    THEN <<FTimes(f.x, YardsPerMeter), FTimes(f.z, FeetPerMeter)>>
    ELSE <<FTimes(f.x, YardsPerMeter), FTimes(f.z, FeetPerMeter),
           FTimes(f.max_height_m, FeetPerMeter)>>

\* adjust_trajectory is called
Launch ==
    /\ flight = <<>>
    /\ \E shot \in EulerShots : flight' = Launched(shot)
    /\ UNCHANGED <<callvars, attrs, concvars, viewvars, lookup, hit, model, classified>>

\* one pass of "while y >= 0"
EulerStep ==
    /\ flight # <<>>
    /\ flight.pc = "loop"
    /\ FLe(FromInt(0), flight.y)
    /\ flight' = EulerBody(flight)
    /\ UNCHANGED <<callvars, attrs, concvars, viewvars, lookup, hit, model, classified>>

\* the loop condition is false: the conversions and the return
EulerReturn ==
    /\ flight # <<>>
    /\ flight.pc = "loop"
    /\ ~FLe(FromInt(0), flight.y)
    /\ flight' = [flight EXCEPT !.pc = "returned", !.ret = EulerResult(flight)]
    /\ UNCHANGED <<callvars, attrs, concvars, viewvars, lookup, hit, model, classified>>

EulerNext == Launch \/ EulerStep \/ EulerReturn

EulerSpec == Init /\ [][EulerNext]_vars

(* Properties of get_landingpos. *)

\* the call has returned or raised
Ended == pc \in {"done", "raised"}

\* the horizon the samples df were integrated over: the time of the last sample
Horizon(df) == df[Len(df)].t

\* the number of places where consecutive samples lie on different sides of the ground
Crossings(df) ==
    Cardinality({ k \in 1..(Len(df) - 1) : (df[k].z >= 0) # (df[k + 1].z >= 0) })

\* the number of steps from a sample at or above ground to one below it
DownwardCrossings(df) ==
    Cardinality({ k \in 1..(Len(df) - 1) : df[k].z >= 0 /\ df[k + 1].z < 0 })

\* y * tan(horizontal launch angle)
StraightLine(y) == RMul(y, TanDeg(horizontal_launch_angle_deg))

\* spin axis and wind speed are both within 1e-6 of zero
WithinEpsilon ==
    /\ RLt(RAbs(spin_angle), Rat(1, 1000000))
    /\ RLt(RAbs(windspeed), Rat(1, 1000000))

\* the call returned a landing point resolved by interpolation
Landed == pc = "done" /\ err = NoError

\* the raw sideways deviation of the interpolated landing point, in meters
RawCurvature == RSub(landing.x, StraightLine(landing.y))

\* the sideways deviation of the returned landing point, in meters
ReturnedCurvature == RSub(ret.val[1], StraightLine(ret.val[2]))

\* the scale factor of the call, from its parameters and raw curvature in yards
AppliedScale ==
    Scale(curvature_scale_params[1], curvature_scale_params[2], curvature_scale_params[3],
          RMul(RawCurvature, YardsPerMeter))

(* C1: every call integrates at least once and at most 3 times; an         *)
(* integration after the first happens only when the previous attempt's    *)
(* final sample is above ground and runs over twice the previous horizon   *)
(* (the first over the horizon the call started with); a shot that lands   *)
(* on the first attempt is integrated exactly once.                        *)
C1_AtMostThreeIntegrations ==
    [][ /\ i' \in 0..3
        /\ i' # i =>
             /\ i' = i + 1
             /\ i = 0 => REq(Horizon(df_simres'), FromInt(default_endtime))
             /\ i >= 1 =>
                  /\ FinalHeight(df_simres) > 0
                  /\ REq(Horizon(df_simres'), RMul(FromInt(2), Horizon(df_simres)))
        /\ (i = 1 /\ FinalHeight(df_simres) <= 0) => i' = 1
        /\ (pc = "loop" /\ pc' # "loop") => i \in 1..3
      ]_vars

\* a call that landed on its third integration, run over four times the initial horizon
C1_Witness ==
    /\ Landed
    /\ i = 3
    /\ Horizon(df_simres) = FromInt(4 * InitialEndtime)

(* C2, as claimed: when the third attempt's final sample is above ground   *)
(* the call returns (0, 0) together with the never-lands status, with or   *)
(* without check.                                                          *)
C2_Original ==
    (Ended /\ i = 3 /\ FinalHeight(df_simres) > 0) =>
        /\ ret.kind = "return"
        /\ Len(ret.val) = 3
        /\ ret.val = <<FromInt(0), FromInt(0), NeverLands>>

(* C2, amended: when the third attempt's final sample is above ground the  *)
(* call returns the point (0, 0); the never-lands status comes with it     *)
(* when check was requested, and without check only (0, 0) is returned.    *)
C2_NeverLandsDegenerate ==
    (Ended /\ i = 3 /\ FinalHeight(df_simres) > 0) =>
        /\ ret.kind = "return"
        /\ ret.val[1] = FromInt(0)
        /\ ret.val[2] = FromInt(0)
        /\ check => (Len(ret.val) = 3 /\ ret.val[3] = NeverLands)
        /\ ~check => Len(ret.val) = 2

\* a third attempt still above ground, in a call without check
C2_Witness ==
    /\ pc = "done"
    /\ i = 3
    /\ FinalHeight(df_simres) > 0
    /\ ~check
    /\ ret.val = <<FromInt(0), FromInt(0)>>

C5_ScaleWithinBounds ==
    (Landed /\ ~WithinEpsilon) =>
        /\ RLe(Rat(1, 10), AppliedScale)
        /\ RLe(AppliedScale, FromInt(2))
        /\ (ReturnedCurvature.n > 0) = (RawCurvature.n > 0)
        /\ (ReturnedCurvature.n < 0) = (RawCurvature.n < 0)
        /\ RLe(RMul(Rat(1, 10), RAbs(RawCurvature)), RAbs(ReturnedCurvature))
        /\ RLe(RAbs(ReturnedCurvature), RMul(FromInt(2), RAbs(RawCurvature)))

\* a landed shot whose unclamped scale 1 - |curvature| is negative and is
\* returned with a tenth of its raw curvature
C5_Witness ==
    /\ Landed
    /\ ~WithinEpsilon
    /\ curvature_scale_params = <<FromInt(-1), FromInt(1), 1>>
    /\ RLt(FromInt(1), RAbs(RMul(RawCurvature, YardsPerMeter)))
    /\ REq(ReturnedCurvature, RMul(Rat(1, 10), RawCurvature))

(* C6: for a landed shot that is not forced straight and has non-zero raw  *)
(* curvature, a scale factor below 1.0 puts the returned lateral           *)
(* coordinate strictly between y * tan(launch_h) and the raw interpolated  *)
(* lateral value.                                                          *)
C6_CorrectedBetween ==
    (Landed /\ ~WithinEpsilon /\ RawCurvature.n # 0 /\ RLt(AppliedScale, FromInt(1))) =>
        \/ /\ RLt(StraightLine(landing.y), ret.val[1])
           /\ RLt(ret.val[1], landing.x)
        \/ /\ RLt(landing.x, ret.val[1])
           /\ RLt(ret.val[1], StraightLine(landing.y))

\* a landed, curving shot returned with half its raw curvature
C6_Witness ==
    /\ Landed
    /\ ~WithinEpsilon
    /\ RawCurvature.n # 0
    /\ AppliedScale = Rat(1, 2)
    /\ REq(ReturnedCurvature, RMul(Rat(1, 2), RawCurvature))

(* C7: when the samples hold one of negative height and the status is      *)
(* empty, p2 is the first sample with height < 0 and p1 the one before it, *)
(* z1 >= 0 > z2, and the raw landing point is x = x1 + t (x2 - x1),        *)
(* y = y1 + t (y2 - y1) with t = z1 / (z1 - z2), 0 <= t < 1; crossings     *)
(* after the first have no influence.                                      *)
C7_FirstCrossingInterpolated ==
    (Ended /\ err = NoError /\ \E k \in 1..Len(df_simres) : df_simres[k].z < 0) =>
        /\ ret.kind = "return"
        /\ \E k \in 1..(Len(df_simres) - 1) :
              LET p1 == df_simres[k]
                  p2 == df_simres[k + 1]
              IN  /\ p2.z < 0
                  /\ \A j \in 1..k : df_simres[j].z >= 0
                  /\ landing.index = k - 1
                  /\ p1.z >= 0
                  /\ REq(RMul(landing.t, FromInt(p1.z - p2.z)), FromInt(p1.z))
                  /\ RLe(FromInt(0), landing.t)
                  /\ RLt(landing.t, FromInt(1))
                  /\ REq(landing.x, RAdd(FromInt(p1.x), RMul(landing.t, FromInt(p2.x - p1.x))))
                  /\ REq(landing.y, RAdd(FromInt(p1.y), RMul(landing.t, FromInt(p2.y - p1.y))))
                  /\ ret.val[2] = landing.y

\* an unchecked call whose samples go below ground twice, resolved in the
\* first of the two brackets
C7_Witness ==
    /\ Landed
    /\ ~check
    /\ DownwardCrossings(df_simres) = 2
    /\ landing.index = 1
    /\ landing.t = Rat(2, 3)

C9_Original ==
    (pc = "loop" /\ i >= 1) =>
        /\ (err = NeverLands) = (FinalHeight(df_simres) >= 0)
        /\ (i < 3 /\ FinalHeight(df_simres) >= 0) =>
              /\ cont
              /\ REq(FromInt(endtime), RMul(FromInt(2), Horizon(df_simres)))

(* C10, as claimed: whenever the interpolation is performed (empty status) *)
(* a bracketing pair exists: the index of p1 is a valid index >= 0,        *)
(* z1 # z2 and the division has a non-zero denominator, also for samples   *)
(* that end at height 0 without going below ground.                        *)
C10_Original ==
    (Ended /\ err = NoError) =>
        /\ ret.kind = "return"
        /\ landing.index \in 0..(Len(df_simres) - 2)
        /\ Row(df_simres, landing.index).z # Row(df_simres, landing.index + 1).z

(* The outcomes of a call. *)

\* the call returned a landing point interpolated from the samples
OutcomeResolved ==
    /\ ret.kind = "return"
    /\ err = NoError
    /\ Len(ret.val) = (IF check THEN 3 ELSE 2)

\* the call returned (0, 0) after a third attempt that ended above ground
OutcomeNeverLands ==
    /\ ret.kind = "return"
    /\ err = NeverLands
    /\ i = imax
    /\ ret.val[1] = FromInt(0)
    /\ ret.val[2] = FromInt(0)

\* the checked call returned (0, 0) with the multiple-crossings status
OutcomeMultipleCrossings ==
    /\ ret.kind = "return"
    /\ check
    /\ err = MultipleCrossings
    /\ ret.val = <<FromInt(0), FromInt(0), MultipleCrossings>>

\* the call raised KeyError: the last attempt ended at height 0 and no sample
\* is below ground
OutcomeKeyError ==
    /\ ret.kind = "raise"
    /\ err = NoError
    /\ FinalHeight(df_simres) = 0
    /\ \A k \in 1..Len(df_simres) : df_simres[k].z >= 0

C12_EndtimeRestored ==
    /\ pc # "loop" => endtime = InitialEndtime
    /\ pc = "loop" => default_endtime = InitialEndtime
    /\ (pc = "loop" /\ i = 0) => endtime = InitialEndtime
    /\ Ended => endtime = default_endtime

\* the second call on an object ended after three attempts, the last one
\* over four times the initial horizon
C12_Witness ==
    /\ ncalls = 2
    /\ Ended
    /\ i = imax
    /\ Horizon(df_simres) = FromInt(4 * InitialEndtime)
    /\ endtime = InitialEndtime

(* The same call on a freshly constructed object. *)

\* 2 to the power k
RECURSIVE Pow2(_)
Pow2(k) == IF k = 0 THEN 1 ELSE 2 * Pow2(k - 1)

\* the horizon of attempt n of a call on a fresh object
FreshHorizon(n) == FromInt(InitialEndtime * Pow2(n - 1))

\* what the call returns on a fresh object whose last attempt produced the
\* samples df: the status and the fields are those of this call's arguments
FreshReturn(df, n) ==
    LET e == IF FinalHeight(df) > 0 THEN NeverLands
             ELSE IF check /\ Groups(df, Len(df)) - 1 > 1 THEN MultipleCrossings
             ELSE NoError
    IN  Resolved(df, e, check, kwargs.horizontal_launch_angle_deg,
                 Radians(kwargs.spin_angle_deg), kwargs.windspeed,
                 curvature_scale_params[1], curvature_scale_params[2],
                 curvature_scale_params[3]).ret

(* C13: in a sequence of calls on one object every call integrates over    *)
(* the horizons a fresh object would use (the constructed endtime, doubled *)
(* per retry) and returns what the same call returns on a fresh object     *)
(* whose integration gives the same samples: the horizon, samples and shot *)
(* fields left by earlier calls have no influence.                         *)
C13_SameAsOnFreshObject ==
    /\ (pc = "loop" /\ i = 0) => endtime = InitialEndtime
    /\ (pc # "idle" /\ i >= 1) => Horizon(df_simres) = FreshHorizon(i)
    /\ Ended => ret = FreshReturn(df_simres, i)

\* the second call on an object, a curving shot that landed on its second
\* attempt and is returned off the launch line
C13_Witness ==
    /\ ncalls = 2
    /\ Landed
    /\ i = 2
    /\ kwargs = Shot(FromInt(45), FromInt(-10), FromInt(0))
    /\ ~REq(ret.val[1], StraightLine(ret.val[2]))

(* Concurrent callers. *)

\* caller t's call has returned or raised
ThreadEnded(t) == threads[t].pc \in {"done", "raised"}

\* what caller t's call returns when run alone, its last integration giving
\* the samples the caller itself integrated last
AloneReturn(t) ==
    LET th == threads[t]
        e == IF FinalHeight(th.own) > 0 THEN NeverLands
             ELSE IF th.check /\ Groups(th.own, Len(th.own)) - 1 > 1 THEN MultipleCrossings
             ELSE NoError
    IN  Resolved(th.own, e, th.check, th.kwargs.horizontal_launch_angle_deg,
                 Radians(th.kwargs.spin_angle_deg), th.kwargs.windspeed,
                 th.curvature_scale_params[1], th.curvature_scale_params[2],
                 th.curvature_scale_params[3]).ret

\* caller t's ended call went as it goes alone: its last integration ran over
\* the horizon of its attempt number, it stopped retrying only on a landed
\* attempt or on the third, and it returned the value of its own samples
RanAsAlone(t) ==
    /\ Horizon(threads[t].own) = FreshHorizon(threads[t].i)
    /\ FinalHeight(threads[t].own) > 0 => threads[t].i = imax
    /\ threads[t].ret = AloneReturn(t)

\* the object of caller t is as the caller's call alone leaves it
ObjectAsAlone(t) ==
    /\ objects[threads[t].self].endtime = InitialEndtime
    /\ objects[threads[t].self].df_simres = threads[t].own
    /\ objects[threads[t].self].horizontal_launch_angle_deg
          = threads[t].kwargs.horizontal_launch_angle_deg
    /\ objects[threads[t].self].spin_angle = Radians(threads[t].kwargs.spin_angle_deg)
    /\ objects[threads[t].self].windspeed = threads[t].kwargs.windspeed

(* C14: when calls run on distinct objects, in any interleaving of their   *)
(* steps every call returns what it returns alone and leaves its object as *)
(* it leaves it alone.                                                     *)
C14_DistinctObjectsIndependent ==
    \A t \in Threads : ThreadEnded(t) => (RanAsAlone(t) /\ ObjectAsAlone(t))

\* two calls on an object each that overlapped and have both ended, the
\* first after a retry, the second a curving shot landed at once
C14_Witness ==
    /\ \A t \in Threads : ThreadEnded(t) /\ threads[t].overlapped
    /\ threads[1].i = 2
    /\ threads[2].i = 1
    /\ threads[2].kwargs = Shot(FromInt(45), FromInt(-10), FromInt(0))
    /\ threads[2].ret.kind = "return"

(* C15, as claimed: on one shared object, in every interleaving of two     *)
(* calls each call returns what it returns alone, and after both have      *)
(* ended endtime has its initial value.                                    *)
C15_Original ==
    /\ \A t \in Threads : ThreadEnded(t) => RanAsAlone(t)
    /\ (\A t \in Threads : ThreadEnded(t)) => objects[1].endtime = InitialEndtime

(* C15, amended: on one shared object a call returns what it returns alone *)
(* when no other call is in progress at any time between its entry and its *)
(* return, and endtime has its initial value after calls that did not      *)
(* overlap; calls whose steps interleave are not safe.                     *)
C15_SafeWithoutOverlap ==
    /\ \A t \in Threads : (ThreadEnded(t) /\ ~threads[t].overlapped) => RanAsAlone(t)
    /\ (\A t \in Threads : ThreadEnded(t) /\ ~threads[t].overlapped)
          => objects[1].endtime = InitialEndtime

\* two calls on the shared object, one after the other, both ended, the
\* first after its third attempt, the second landed at once
C15_Witness ==
    /\ \A t \in Threads : ThreadEnded(t) /\ ~threads[t].overlapped /\ threads[t].self = 1
    /\ \E t \in Threads : threads[t].i = imax /\ threads[t].err = NeverLands
    /\ \E t \in Threads : threads[t].i = 1 /\ threads[t].ret.kind = "return"
                            /\ threads[t].err = NoError
    /\ objects[1].endtime = InitialEndtime

(* The 3D viewer. *)

\* the raw point where the samples df first cross height 0
ZeroCrossing(df) ==
    LET l == Interpolate(df, ArgmaxNegative(df) - 1)
    IN  <<l.x, l.y>>

(* C16, as claimed: when update_trajectory has its landing marker, the     *)
(* samples the marker was resolved from are those of the plotted curve     *)
(* (same horizon, same samples), and the marker's (x, y) is the point      *)
(* where they cross height 0.                                              *)
C16_Original ==
    (vshot # <<>> /\ pc = "done") =>
        /\ AboveGround(df_simres) = df_plot
        /\ \E k \in 1..Len(df_simres) : df_simres[k].z < 0
        /\ REq(ret.val[1], ZeroCrossing(df_simres)[1])
        /\ REq(ret.val[2], ZeroCrossing(df_simres)[2])

(* The apex the shot loop takes from the stored samples. *)

\* golf_m.df_simres['z'][golf_m.df_simres['z'] >= 0]
HeightsAboveGround(df) == { df[k].z : k \in { j \in 1..Len(df) : df[j].z >= 0 } }

\* max(...) of these heights
Apex(df) == CHOOSE m \in HeightsAboveGround(df) : \A h \in HeightsAboveGround(df) : h <= m

\* the status the loop derives from an attempt's samples
StatusOf(df) ==
    IF FinalHeight(df) > 0 THEN NeverLands
    ELSE IF check /\ Groups(df, Len(df)) - 1 > 1 THEN MultipleCrossings
    ELSE NoError

\* after the call the stored samples are those of attempt i, the status and
\* the result are derived from them, and their apex is defined and >= 0
ApexDefined ==
    Ended =>
        /\ HeightsAboveGround(df_simres) # {}
        /\ df_simres[1].z = 0
        /\ Apex(df_simres) >= 0
        /\ Horizon(df_simres) = FreshHorizon(i)
        /\ err = StatusOf(df_simres)
        /\ ret = Resolved(df_simres, err, check, horizontal_launch_angle_deg, spin_angle,
                          windspeed, curvature_scale_params[1], curvature_scale_params[2],
                          curvature_scale_params[3]).ret

\* leaving the loop keeps the last attempt's samples
SamplesKept == (pc = "loop" /\ pc' # "loop") => df_simres' = df_simres

(* C17: after get_landingpos returns, df_simres holds the samples of the   *)
(* last integration attempt, the landing point and status returned are     *)
(* derived from these samples, and the apex computed from them (maximum    *)
(* height over the samples with height >= 0) is defined and >= 0, the      *)
(* first sample having height 0.                                           *)
C17_ApexFromLastAttempt == []ApexDefined /\ [][SamplesKept]_vars

C17_Witness ==
    /\ pc = "done"
    /\ i = 2
    /\ err = NoError
    /\ \E k \in 1..Len(df_simres) : df_simres[k].z < 0
    /\ Apex(df_simres) = 2

(* The time grid of an integration attempt. *)

\* the samples of the last attempt: timesteps of them, the first one the
\* origin at t = 0, the last one at the attempt's horizon, times increasing
GridSpansHorizon ==
    (pc # "idle" /\ i >= 1) =>
        /\ Len(df_simres) = attrs.timesteps
        /\ df_simres[1].t = FromInt(0)
        /\ df_simres[1].x = 0 /\ df_simres[1].y = 0 /\ df_simres[1].z = 0
        /\ Horizon(df_simres) = FreshHorizon(i)
        /\ \A k \in 1..(Len(df_simres) - 1) : RLt(df_simres[k].t, df_simres[k + 1].t)

\* a retry keeps the number of samples and doubles every sample time
SpacingDoubles ==
    (pc = "loop" /\ i >= 1 /\ i' = i + 1) =>
        /\ Len(df_simres') = Len(df_simres)
        /\ \A k \in 1..Len(df_simres) :
              REq(df_simres'[k].t, RMul(FromInt(2), df_simres[k].t))

(* C18: every integration attempt produces exactly timesteps samples whose *)
(* times increase strictly from 0 to the current horizon, the first sample *)
(* being the origin; the count is the same on every retry, so the spacing  *)
(* doubles each time the horizon doubles.                                  *)
C18_GridOfEveryAttempt == []GridSpansHorizon /\ [][SpacingDoubles]_vars

C18_Witness ==
    /\ pc = "loop"
    /\ i = imax
    /\ Len(df_simres) = NumSamples
    /\ Horizon(df_simres) = FromInt(4 * InitialEndtime)
    /\ REq(df_simres[2].t, Rat(4 * InitialEndtime, NumSamples - 1))

(* The coefficient set. *)

\* C_d0, C_d1, C_d2, C_d4, C_l2, C_l4, sn_Cl, mu, Re_crit and timesteps
CoefficientSet(at) ==
    <<at.C_d0, at.C_d1, at.C_d2, at.C_d4, at.C_l2, at.C_l4, at.sn_Cl, at.mu,
      at.Re_crit, at.timesteps>>

\* a step of a call (entering it, an attempt, leaving the loop) keeps the set
CallKeepsCoefficients ==
    (pc # "idle" \/ pc' # "idle") => CoefficientSet(attrs') = CoefficientSet(attrs)

\* a step that changes the set is a calibration step taken between calls
OnlyCalibrationWrites ==
    CoefficientSet(attrs') # CoefficientSet(attrs) =>
        /\ pc = "idle" /\ pc' = "idle"
        /\ SetParams \/ SetCoefficients

(* C19: get_landingpos with its initiate_hit, simulate and model steps     *)
(* leaves C_d0, C_d1, C_d2, C_d4, C_l2, C_l4, sn_Cl, mu, Re_crit and       *)
(* timesteps as they were, for every shot and number of retries; only      *)
(* set_params and optimize_coefficients change them, between calls.        *)
C19_CoefficientsReadOnly ==
    [][CallKeepsCoefficients /\ OnlyCalibrationWrites]_vars

C19_Witness ==
    /\ Ended
    /\ ncalls = 2
    /\ i = imax
    /\ attrs.C_d0 # NewAttrs.C_d0
    /\ attrs.C_l2 # NewAttrs.C_l2
    /\ attrs.C_d4 # NewAttrs.C_d4

(* Degenerate input. *)

\* the ball of the call has zero mass or zero radius
DegenerateBall == kwargs # <<>> /\ (kwargs.mass = FromInt(0) \/ kwargs.radius = FromInt(0))

(* C20, as claimed: a call with degenerate input (here a ball of zero mass *)
(* or zero radius) ends in a hard failure: it raises, and returns no       *)
(* landing point, neither a valid-looking one nor (0, 0) with an empty     *)
(* status.                                                                 *)
C20_Original == (Ended /\ DegenerateBall) => ret.kind = "raise"

(* The lift table. *)

\* the breakpoints (0, 0), (0.04, 0.1), (0.1, 0.16), (0.2, 0.23), (0.4, 0.33)
TableSn == <<FromInt(0), Rat(1, 25), Rat(1, 10), Rat(1, 5), Rat(2, 5)>>

TableCl == <<FromInt(0), Rat(1, 10), Rat(4, 25), Rat(23, 100), Rat(33, 100)>>

\* cl lies on the segment between breakpoints j and j + 1 at sn
OnSegment(sn, cl, j) ==
    /\ FLe(TableSn[j], sn) /\ FLe(sn, TableSn[j + 1])
    /\ RMul(RSub(cl, TableCl[j]), RSub(TableSn[j + 1], TableSn[j]))
         = RMul(RSub(TableCl[j + 1], TableCl[j]), RSub(sn, TableSn[j]))

\* the looked-up value is the clamped piecewise-linear one, within [0, 0.33]
LookupClamped ==
    lookup # <<>> =>
        /\ FLe(lookup.sn, FromInt(0)) => lookup.cl = FromInt(0)
        /\ FLe(Rat(2, 5), lookup.sn) => lookup.cl = Rat(33, 100)
        /\ (~FLe(lookup.sn, FromInt(0)) /\ ~FLe(Rat(2, 5), lookup.sn)) =>
              /\ IsFinite(lookup.cl)
              /\ \E j \in 1..4 : OnSegment(lookup.sn, lookup.cl, j)
        /\ FLe(FromInt(0), lookup.cl) /\ FLe(lookup.cl, Rat(33, 100))

\* of two lookups the one with the larger sn has the larger or equal cl
LookupMonotone ==
    (lookup # <<>> /\ FLe(lookup.sn, lookup'.sn)) => FLe(lookup.cl, lookup'.cl)

(* C25, as claimed: for every effective spin sn the lookup used by Cl      *)
(* returns 0 when sn <= 0, 0.33 when sn >= 0.4, and otherwise the linear   *)
(* interpolation between the two adjacent breakpoints; the looked-up lift  *)
(* coefficient is non-decreasing in sn and always within [0, 0.33].        *)
C25_Original == []LookupClamped /\ [][LookupMonotone]_vars

(* The wind vector and the relative velocity. *)

\* the velocity part of a state of model()
BallOf(state) == <<state[4], state[5], state[6]>>

\* the wind vector is windspeed * (sin h, cos h, 0) and has no vertical part
WindFromHeading ==
    hit # <<>> =>
        /\ hit.windvelocity[1] = RMul(hit.args.windspeed, SinDeg(hit.args.windheading_deg))
        /\ hit.windvelocity[2] = RMul(hit.args.windspeed, CosDeg(hit.args.windheading_deg))
        /\ hit.windvelocity[3] = FromInt(0)

\* heading 0 is a pure tailwind (0, w, 0)
TailwindAtZero ==
    (hit # <<>> /\ hit.args.windheading_deg = 0) =>
        hit.windvelocity = <<FromInt(0), hit.args.windspeed, FromInt(0)>>

\* model() works on the ball velocity minus the wind vector: its v_rel and u
\* are those, and its accelerations are the ones of a ball moving with v_rel
\* through still air
ForcesFromRelativeVelocity ==
    model # <<>> =>
        /\ model.v_rel = VecSub(BallOf(model.state), hit.windvelocity)
        /\ model.u = Norm(model.v_rel)
        /\ \E c \in CoefficientSets :
              LET still == Model([hit EXCEPT !.windvelocity = <<FromInt(0), FromInt(0), FromInt(0)>>],
                                 c, <<FromInt(0), FromInt(0), FromInt(0)>> \o model.v_rel
                                       \o <<model.state[7]>>)
              IN  \A k \in 4..7 : model.result[k] = still.result[k]

(* C22, as claimed: initiate_hit turns wind speed w and heading h into     *)
(* (w sin h, w cos h, 0); heading 0 gives (0, w, 0), heading 180 degrees   *)
(* gives (0, -w, 0), there is never a vertical component, and the forces   *)
(* of model are computed from the ball velocity minus this vector.         *)
C22_Original ==
    /\ WindFromHeading
    /\ TailwindAtZero
    /\ (hit # <<>> /\ hit.args.windheading_deg = 180) =>
          hit.windvelocity = <<FromInt(0), RNeg(hit.args.windspeed), FromInt(0)>>
    /\ ForcesFromRelativeVelocity

(* C22, amended: as above, but at heading 180 degrees the vector is        *)
(* (w sin(pi), -w, 0) with sin(pi) the non-zero rounding residue of the    *)
(* floating point sine: the downrange component is exactly -w, the lateral *)
(* component is w times the residue, zero only for w = 0.                  *)
C22_WindVector ==
    /\ WindFromHeading
    /\ TailwindAtZero
    /\ (hit # <<>> /\ hit.args.windheading_deg = 180) =>
          /\ hit.windvelocity[2] = RNeg(hit.args.windspeed)
          /\ hit.windvelocity[1] = RMul(hit.args.windspeed, RMul(FromInt(2), Residue))
          /\ (hit.windvelocity[1] = FromInt(0)) = (hit.args.windspeed = FromInt(0))
    /\ ForcesFromRelativeVelocity

C22_Witness ==
    /\ hit # <<>> /\ model # <<>>
    /\ hit.args.windheading_deg = 0
    /\ hit.windvelocity = <<FromInt(0), FromInt(4), FromInt(0)>>
    /\ BallOf(model.state) = <<FromInt(0), FromInt(44), FromInt(30)>>
    /\ model.u = FromInt(50)
    /\ model.state[7] = FromInt(113)

(* The lateral acceleration. *)

\* a shot with spin axis 0 and horizontal launch angle 0 in a wind with no
\* lateral component, evaluated at a state with no lateral relative velocity
StraightShot ==
    /\ model # <<>>
    /\ hit.spin_angle_deg = 0
    /\ hit.args.horizontal_launch_angle_deg = 0
    /\ hit.velocity[1] = FromInt(0)
    /\ hit.windvelocity[1] = FromInt(0)
    /\ model.v_rel[1] = FromInt(0)

(* C26, as claimed: for a shot with spin axis 0, horizontal launch angle 0 *)
(* and no lateral wind, the lateral acceleration computed by model is 0    *)
(* whenever the lateral relative velocity is 0, for every speed, vertical  *)
(* angle, spin rate and coefficient set, and the lateral velocity stays 0. *)
C26_Original ==
    StraightShot => /\ model.result[1] = FromInt(0)
                    /\ model.result[4] = FromInt(0)

(* The multiple-crossings test. *)

(* C23, as claimed: with check, the multiple-crossings status is reported  *)
(* exactly when the samples of the landed attempt hold more than one step  *)
(* from height >= 0 to height < 0; samples with exactly one such step, as  *)
(* those that go below ground once and end at height exactly 0, are never  *)
(* reported.                                                               *)
C23_Original ==
    (pc = "done" /\ check /\ ret.kind = "return" /\ FinalHeight(df_simres) <= 0) =>
        ((ret.val[3] = MultipleCrossings) <=> (DownwardCrossings(df_simres) > 1))

(* The status of a checked call. *)

\* the status a checked call returned
ReturnedStatus == ret.val[3]

\* the returned status is one of the three, is that of the stored (last)
\* samples, and the two errors exclude each other by the final height
StatusOfLastAttempt ==
    (pc = "done" /\ check) =>
        /\ ret.kind = "return"
        /\ Len(ret.val) = 3
        /\ ReturnedStatus \in {NoError, NeverLands, MultipleCrossings}
        /\ ReturnedStatus = StatusOf(df_simres)
        /\ (ReturnedStatus = NeverLands) => (i = imax /\ FinalHeight(df_simres) > 0)
        /\ (ReturnedStatus = MultipleCrossings) => ~(FinalHeight(df_simres) > 0)
        /\ (ReturnedStatus = NoError) => ~(FinalHeight(df_simres) > 0)

\* every attempt replaces the status of the attempt before it
StatusReplaced == (pc = "loop" /\ i' = i + 1) => err' = StatusOf(df_simres')

(* C24: the status returned by get_landingpos(check=True) is one of empty, *)
(* never lands, multiple crossings; it is determined by the last attempt   *)
(* alone; it is never-lands only if 3 attempts were run and the third ends *)
(* above ground, and multiple-crossings only if the last attempt does not  *)
(* end above ground, so the two exclude each other.                        *)
C24_StatusOfLastAttempt == []StatusOfLastAttempt /\ [][StatusReplaced]_vars

\* a checked call whose first attempt never landed and whose second one
\* crossed the ground more than once
C24_Witness ==
    /\ pc = "done"
    /\ check
    /\ i = 2
    /\ ReturnedStatus = MultipleCrossings
    /\ FinalHeight(df_simres) < 0

(* What the curvature correction touches. *)

\* the raw interpolated landing point of the stored samples: lines 129-134
RawLanding == Interpolate(df_simres, ArgmaxNegative(df_simres) - 1)


\* the returned carry is the raw interpolated y, and the point stored by the
\* interpolation is the raw one
CarryIsRaw ==
    (pc = "done" /\ err = NoError) =>
        /\ ret.val[2] = RawLanding.y
        /\ landing = RawLanding

\* the stored samples change only when an attempt integrates
SamplesFromIntegration == (df_simres' # df_simres) => (pc = "loop" /\ cont /\ i' = i + 1)

(* C27: the curvature correction changes only the returned lateral         *)
(* coordinate: the returned carry y is the raw interpolated y, and the     *)
(* stored samples are not modified after integration, whatever scale       *)
(* factor was applied.                                                     *)
C27_CorrectionOnlyLateral == []CarryIsRaw /\ [][SamplesFromIntegration]_vars

\* a call whose returned lateral coordinate differs from the raw one
C27_Witness ==
    /\ pc = "done"
    /\ err = NoError
    /\ ret.val[2] = RawLanding.y
    /\ ~REq(ret.val[1], RawLanding.x)
    /\ ~REq(RawLanding.y, FromInt(0))

(* The scaling parameters of the optimizer variant. *)

\* the call in progress or just ended was made without curvature_scale_params
CalledWithoutParams == pc # "idle" /\ curvature_scale_params \notin ExplicitScaleParams

\* a call without parameters works on the object's current a, b, p; every
\* call applies the parameters it works on to the raw landing point
CurrentParamsApplied ==
    /\ CalledWithoutParams => curvature_scale_params = <<attrs.a, attrs.b, attrs.p>>
    /\ (pc = "done" /\ err = NoError) =>
          ret.val[1] = Adjust(landing.x, landing.y, horizontal_launch_angle_deg, spin_angle,
                              windspeed,
                              IF CalledWithoutParams THEN attrs.a ELSE curvature_scale_params[1],
                              IF CalledWithoutParams THEN attrs.b ELSE curvature_scale_params[2],
                              IF CalledWithoutParams THEN attrs.p ELSE curvature_scale_params[3])

\* only set_params, between calls, changes the stored a, b, p
StoredParamsKept ==
    <<attrs.a, attrs.b, attrs.p>>' # <<attrs.a, attrs.b, attrs.p>> =>
        (pc = "idle" /\ pc' = "idle" /\ SetParams)

(* C28: in the optimizer variant, get_landingpos called without            *)
(* curvature_scale_params uses the object's current (a, b, p), so after    *)
(* set_params changed them the next call applies the new values; an        *)
(* explicitly passed curvature_scale_params is used for that call only and *)
(* leaves the stored a, b, p unchanged.                                    *)
C28_StoredScaleParams == []CurrentParamsApplied /\ [][StoredParamsKept]_vars

\* the second call, made without parameters after set_params stored b = 1,
\* returns the raw lateral coordinate of a curved shot
C28_Witness ==
    /\ pc = "done"
    /\ ncalls = 2
    /\ err = NoError
    /\ CalledWithoutParams
    /\ attrs.b = FromInt(1)
    /\ ~ForcedStraight(spin_angle, windspeed)
    /\ ~REq(landing.x, StraightLine(landing.y))
    /\ REq(ret.val[1], landing.x)

(* The shot labels. *)

\* the label fixed by the signs of the two angles
LabelOfSigns(launch_h, spin_axis) ==
    LET prefix == IF FLt(launch_h, FromInt(0)) THEN "Pull"
                  ELSE IF FLt(FromInt(0), launch_h) THEN "Push" ELSE ""
        curve  == IF FLt(spin_axis, FromInt(0)) THEN "Draw"
                  ELSE IF FLt(FromInt(0), spin_axis) THEN "Fade" ELSE ""
    IN  IF prefix = "" /\ curve = "" THEN "Straight"
        ELSE IF prefix = "" THEN curve
        ELSE IF curve = "" THEN prefix
        ELSE prefix \o " " \o curve

(* C29: for every pair of numeric values (launch_h, spin_axis),            *)
(* classify_shot returns the label fixed by the two signs (Pull, none,     *)
(* Push for launch_h < 0, = 0, > 0; Draw, none, Fade for spin_axis < 0,    *)
(* = 0, > 0; 'Straight' for both zero), never 'Unknown' or no value, and   *)
(* the v3 and v6 versions return the same label.                           *)
C29_LabelBySigns ==
    classified # <<>> =>
        /\ classified.v6 = LabelOfSigns(classified.launch_h, classified.spin_axis)
        /\ classified.v6 \notin {"Unknown", "None"}
        /\ classified.v3 = classified.v6

\* a shot launched to the right with a positive spin axis: a push fade
C29_Witness ==
    /\ classified # <<>>
    /\ classified.launch_h = Rat(1, 10)
    /\ classified.spin_axis = FromInt(30)
    /\ classified.v6 = "Push Fade"
    /\ classified.v3 = "Push Fade"

(* The Euler-step flights. *)

\* adjust_trajectory has returned
Returned30 == flight # <<>> /\ flight.pc = "returned"

\* the loop body ran at least once and the height it left is negative
ReturnsBelowGround ==
    Returned30 => (flight.t >= 1 /\ FLt(flight.y, FromInt(0)))

\* the returned carry and side are the converted x and z of the last step
ReturnsLastStep ==
    Returned30 =>
        /\ flight.ret[1] = FTimes(flight.x, YardsPerMeter)
        /\ flight.ret[2] = FTimes(flight.z, FeetPerMeter)

\* a step taken at zero relative speed has zero drag and, in the GUI, zero lift
NoForceAtRest ==
    (flight # <<>> /\ flight.t >= 1 /\ flight.v_mag = FromInt(0)) =>
        /\ flight.F_d = <<FromInt(0), FromInt(0), FromInt(0)>>
        /\ (flight.shot.variant = "gui") => (flight.F_l = <<FromInt(0), FromInt(0)>>)

\* the tracked maximum height is not negative
MaxHeightNotNegative == flight # <<>> => FLe(FromInt(0), flight.max_height_m)

\* every step is taken from a height >= 0: the step that ends the loop is the
\* first one below ground
StepsFromAboveGround ==
    (flight # <<>> /\ flight' # <<>> /\ flight'.t = flight.t + 1) => FLe(FromInt(0), flight.y)

FlightAsClaimed ==
    ReturnsBelowGround /\ ReturnsLastStep /\ NoForceAtRest /\ MaxHeightNotNegative

(* C30, as claimed: the Euler-step adjust_trajectory variants run their    *)
(* step at least once and return only after a step has made the height     *)
(* negative; the returned carry and side are the coordinates of that first *)
(* below-ground step; zero relative speed gives zero drag (and zero lift   *)
(* in the GUI variant) without a division by zero; the tracked maximum     *)
(* height is >= 0.                                                         *)
C30_Original == []FlightAsClaimed /\ [][StepsFromAboveGround]_vars

===========================================================================
